---- MODULE Spec2Model ----
(***************************************************************************)
(* Rule engine of the astro platform: the rule loader / validator          *)
(* (backend/rules_engine.py load_rules, reload_rules), the rule evaluator  *)
(* (evaluate_rule, evaluate_all) and the HTTP handlers of backend/main.py  *)
(* that expose them.                                                       *)
(*                                                                         *)
(* Representation.  A parsed JSON value is a record [t, s, n, kv]: t is    *)
(* the JSON type ("absent" when the key is missing), s a string payload,   *)
(* n a number payload (list length for a list), kv the ordered key/value   *)
(* pairs of an object.  A status expression string is the sequence of its *)
(* whitespace/parenthesis separated lexemes.  A ruleset file is named by   *)
(* its position in the directory listing.                                  *)
(***************************************************************************)
EXTENDS Integers, Sequences, FiniteSets, TLC

(* ------------------------------ bounds -------------------------------- *)
MaxBatch == 2

(* --------------------------- JSON values ------------------------------ *)
JV(t, s, n, kv) == [t |-> t, s |-> s, n |-> n, kv |-> kv]
JAbsent == JV("absent", "", 0, <<>>)
JNull == JV("null", "", 0, <<>>)
JStr(s) == JV("str", s, 0, <<>>)
JNum(n) == JV("num", "", n, <<>>)
JBool(b) == JV("bool", "", IF b THEN 1 ELSE 0, <<>>)
JList(n) == JV("list", "", n, <<>>)
JObj(kv) == JV("obj", "", 0, kv)
KV(k, v) == [k |-> k, v |-> v]

\* Python truth value of a parsed JSON value
Truthy(v) ==
    CASE v.t = "str" -> v.s # ""
      [] v.t = "num" -> v.n # 0
      [] v.t = "bool" -> v.n = 1
      [] v.t = "list" -> v.n > 0
      [] v.t = "obj" -> Len(v.kv) > 0
      [] OTHER -> FALSE

\* strings that float() parses to a finite number
NumericStrings == [s \in {"2"} |-> 2]

\* a float that is +infinity: a number value whose payload s is "inf"
JInf == JV("num", "inf", 0, <<>>)
\* strings that float() parses to +infinity
InfinityStrings == {"inf", "Infinity", "1e999"}

\* float(v): ok for numbers, booleans and numeric strings (v is the float), an
\* exception otherwise
FloatOf(v) ==
    CASE v.t = "num" -> [ok |-> TRUE, v |-> v]
      [] v.t = "bool" -> [ok |-> TRUE, v |-> JNum(v.n)]
      [] v.t = "str" /\ v.s \in DOMAIN NumericStrings -> [ok |-> TRUE, v |-> JNum(NumericStrings[v.s])]
      [] v.t = "str" /\ v.s \in InfinityStrings -> [ok |-> TRUE, v |-> JInf]
      [] OTHER -> [ok |-> FALSE, v |-> JNum(0)]

Keys(v) == {v.kv[i].k : i \in 1..Len(v.kv)}

\* dict.get(k, default) on an object value
Get(v, k, default) ==
    IF k \in Keys(v) THEN v.kv[CHOOSE i \in 1..Len(v.kv) : v.kv[i].k = k].v ELSE default

(* -------------------------- core tables ------------------------------- *)
SIGN_LORD ==
    [s \in 1..12 |->
        CASE s \in {1, 8} -> "Mars"
          [] s \in {2, 7} -> "Venus"
          [] s \in {3, 6} -> "Mercury"
          [] s = 4 -> "Moon"
          [] s = 5 -> "Sun"
          [] s \in {9, 12} -> "Jupiter"
          [] OTHER -> "Saturn"]

PREDICATES ==
    {"planet_in_karaka_houses_of", "planet_in_karaka_places_of", "planet_in_signs",
     "mutual_aspect_hybrid", "conjunction", "any_connection",
     "planet_in_house_group_from_asc", "planet_in_house_from_asc", "planet_in_own_sign",
     "planet_in_exaltation", "planet_debilitated", "exaltation_lord_support",
     "debilitation_lord_support", "lord_exchange", "kendra_from",
     "any_yogakaraka", "yogakaraka_in_group_from_asc", "yogakaraka_strong_place",
     "benefics_occupy_house_from_asc", "benefics_aspect_house_from_asc",
     "malefics_occupy_house_from_asc", "malefics_aspect_house_from_asc",
     "sav_lite_threshold"}

(* ------------------------ status expressions -------------------------- *)
_ALLOWED_STATUS_TOKENS == {"and", "or", "not", "True", "False", "(", ")"}

\* the lexemes of the model on which str.isidentifier() is true
IdentifierLexemes == {"a", "b", "c", "true", "false", "and", "or", "not", "True", "False"}

isidentifier(tok) == tok \in IdentifierLexemes

Err(msg, arg) == [msg |-> msg, arg |-> arg]
NoErr == Err("", "")

RECURSIVE ValidateTokens(_, _, _)
ValidateTokens(raw, i, signal_ids) ==
    IF i > Len(raw) THEN NoErr
    ELSE LET tok == raw[i] IN
         IF tok \in _ALLOWED_STATUS_TOKENS THEN ValidateTokens(raw, i + 1, signal_ids)
         ELSE IF tok \in {"true", "false"} THEN ValidateTokens(raw, i + 1, signal_ids)
         ELSE IF isidentifier(tok)
              THEN IF tok \notin signal_ids
                   THEN Err("Unknown identifier in status expression", tok)
                   ELSE ValidateTokens(raw, i + 1, signal_ids)
              ELSE Err("Illegal token in status expression", tok)

\* _validate_status_expr: NoErr if ok, else the error of the first offending token
_validate_status_expr(expr, signal_ids) == ValidateTokens(expr, 1, signal_ids)

(* ----------------------------- loader --------------------------------- *)
Diag(fname, msg, arg) == [file |-> fname, error |-> Err(msg, arg)]

\* validate signals (lines 531-554): the declared ids, the diagnostics, the bad flag
RECURSIVE ScanSignals(_, _, _, _, _)
ScanSignals(items, i, fname, seen_sig_ids, acc) ==
    IF i > Len(items) THEN [seen |-> seen_sig_ids, errs |-> acc.errs, bad |-> acc.bad]
    ELSE LET sig == items[i]
             sid == sig.id
             pred == sig.predicate
             Fail(msg, arg) ==
                 ScanSignals(items, i + 1, fname, seen_sig_ids,
                             [errs |-> Append(acc.errs, Diag(fname, msg, arg)), bad |-> TRUE])
         IN  IF ~sig.obj THEN Fail("Signal item must be object", "")
             ELSE IF ~Truthy(sid) \/ sid.t # "str" THEN Fail("Signal missing/invalid 'id'", "")
             ELSE IF sid.s \in seen_sig_ids THEN Fail("Duplicate signal id", sid.s)
             ELSE IF ~Truthy(pred) \/ pred.t # "str"
                  THEN Fail("Signal missing/invalid 'predicate'", sid.s)
             ELSE IF pred.s \notin PREDICATES THEN Fail("Unknown predicate on signal", pred.s)
             ELSE IF sig.params.t \notin {"absent", "obj"}
                  THEN Fail("Signal params must be an object", sid.s)
             ELSE ScanSignals(items, i + 1, fname, seen_sig_ids \cup {sid.s}, acc)

\* weights loop (lines 562-571): unknown keys and non-numbers are reported,
\* numbers are normalised to float in place
RECURSIVE ScanWeights(_, _, _, _, _)
ScanWeights(kv, i, fname, seen_sig_ids, acc) ==
    IF i > Len(kv) THEN acc
    ELSE LET k == kv[i].k
             f == FloatOf(kv[i].v)
         IN  IF k \notin seen_sig_ids
             THEN ScanWeights(kv, i + 1, fname, seen_sig_ids,
                      [acc EXCEPT !.errs = Append(@, Diag(fname, "'weights' references unknown signal id", k)),
                                  !.bad = TRUE])
             ELSE IF f.ok
             THEN ScanWeights(kv, i + 1, fname, seen_sig_ids,
                      [acc EXCEPT !.kv[i] = KV(k, f.v)])
             ELSE ScanWeights(kv, i + 1, fname, seen_sig_ids,
                      [acc EXCEPT !.errs = Append(@, Diag(fname, "'weights' value must be a number", k)),
                                  !.bad = TRUE])

\* weights (lines 557-571).  A falsy value that is no object (null, [], "", 0,
\* false) passes the guard of line 558 and reaches weights.keys(): AttributeError.
CheckWeights(obj, fname, seen_sig_ids) ==
    LET weights == IF obj.weights.t = "absent" THEN JObj(<<>>) ELSE obj.weights IN
    IF Truthy(weights) /\ weights.t # "obj"
    THEN [raised |-> FALSE, errs |-> <<Diag(fname, "'weights' must be an object", "")>>,
          bad |-> TRUE, weights |-> obj.weights]
    ELSE IF weights.t # "obj"
    THEN [raised |-> TRUE, errs |-> <<>>, bad |-> FALSE, weights |-> obj.weights]
    ELSE LET r == ScanWeights(weights.kv, 1, fname, seen_sig_ids,
                              [errs |-> <<>>, bad |-> FALSE, kv |-> weights.kv])
         IN  [raised |-> FALSE, errs |-> r.errs, bad |-> r.bad,
              weights |-> IF obj.weights.t = "absent" THEN obj.weights ELSE JObj(r.kv)]

RECURSIVE ScanStrength(_, _, _, _, _)
ScanStrength(kv, i, fname, seen_sig_ids, acc) ==
    IF i > Len(kv) THEN acc
    ELSE LET k == kv[i].k
             v == kv[i].v
             e1 == IF k \notin seen_sig_ids
                   THEN <<Diag(fname, "'strength_weights' references unknown signal id", k)>>
                   ELSE <<>>
             e2 == IF v.t # "bool"
                   THEN <<Diag(fname, "'strength_weights' value must be true/false", k)>>
                   ELSE <<>>
         IN  ScanStrength(kv, i + 1, fname, seen_sig_ids,
                 [errs |-> acc.errs \o e1 \o e2, bad |-> acc.bad \/ (e1 \o e2) # <<>>])

\* strength_weights (lines 574-586): only a truthy value is looked at
CheckStrengthWeights(obj, fname, seen_sig_ids) ==
    LET strength_weights ==
            IF obj.strength_weights.t = "absent" THEN JObj(<<>>) ELSE obj.strength_weights
    IN  IF ~Truthy(strength_weights) THEN [errs |-> <<>>, bad |-> FALSE]
        ELSE IF strength_weights.t # "obj"
        THEN [errs |-> <<Diag(fname, "'strength_weights' must be an object", "")>>, bad |-> TRUE]
        ELSE ScanStrength(strength_weights.kv, 1, fname, seen_sig_ids,
                          [errs |-> <<>>, bad |-> FALSE])

\* one status expression (lines 590-598)
CheckStatusKey(obj, key, fname, seen_sig_ids) ==
    LET v == obj[key] IN
    IF v.t = "absent" THEN <<>>
    ELSE IF v.t # "str" THEN <<Diag(fname, "must be a string boolean expression", key)>>
    ELSE LET err == _validate_status_expr(v.toks, seen_sig_ids) IN
         IF err # NoErr THEN <<Diag(fname, key, err.msg \o ": " \o err.arg)>> ELSE <<>>

Merge(x, y) == [errs |-> x.errs \o y.errs, bad |-> x.bad \/ y.bad]
Flagged(errs) == [errs |-> errs, bad |-> errs # <<>>]
Skip(d, errs) == [verdict |-> "skip", errs |-> errs, obj |-> d]

\* lines 600-611: a bad definition is skipped; orb_deg is normalised to float
\* (or reported); the object enters the cache
Admit(d, fname, weights, v, orb) ==
    IF v.bad THEN Skip(d, v.errs)
    ELSE IF d.orb_deg.t # "absent" /\ ~orb.ok
    THEN Skip(d, Append(v.errs, Diag(fname, "'orb_deg' must be a number", "")))
    ELSE [verdict |-> "admit", errs |-> v.errs,
          obj |-> [d EXCEPT !.weights = weights,
                            !.orb_deg = IF d.orb_deg.t = "absent" THEN @ ELSE orb.v]]

\* lines 573-598, after the weights
AfterWeights(d, fname, sg, w) ==
    IF w.raised THEN [verdict |-> "raise", errs |-> sg.errs, obj |-> d]
    ELSE Admit(d, fname, w.weights,
               Merge(Merge(Merge([errs |-> sg.errs, bad |-> sg.bad],
                                 [errs |-> w.errs, bad |-> w.bad]),
                           CheckStrengthWeights(d, fname, sg.seen)),
                     Flagged(CheckStatusKey(d, "strong_if", fname, sg.seen)
                             \o CheckStatusKey(d, "active_if", fname, sg.seen))),
               FloatOf(d.orb_deg))

\* lines 556-571, after the signals
AfterSignals(d, fname, sg) == AfterWeights(d, fname, sg, CheckWeights(d, fname, sg.seen))

\* one file of the directory listing (body of the loop, lines 497-611):
\* verdict "skip", "admit" (with the normalised object) or "raise"
ValidateDef(d, fname, out) ==
    IF d.kind = "other_file" THEN Skip(d, <<>>)
    ELSE IF d.kind = "invalid_json" THEN Skip(d, <<Diag(fname, "JSON parse error", "")>>)
    ELSE IF d.kind # "object"
         THEN Skip(d, <<Diag(fname, "Top-level JSON must be an object", "")>>)
    ELSE IF d.disabled = JBool(TRUE)
         THEN Skip(d, <<Diag(fname, "Rule disabled via 'disabled': true (skipped)", "")>>)
    ELSE IF d.id.t = "absent" \/ d.signals.t = "absent"
         THEN Skip(d, <<Diag(fname, "Missing 'id' or 'signals' at top level", "")>>)
    ELSE IF d.id.t # "str" THEN Skip(d, <<Diag(fname, "'id' must be a string", "")>>)
    ELSE IF d.signals.t # "list" \/ Len(d.signals.items) = 0
         THEN Skip(d, <<Diag(fname, "'signals' must be a non-empty list", "")>>)
    ELSE IF d.id.s \in {out[j].id.s : j \in 1..Len(out)}
         THEN Skip(d, <<Diag(fname, "Duplicate rule id (already loaded)", d.id.s)>>)
    ELSE AfterSignals(d, fname,
                      ScanSignals(d.signals.items, 1, fname, {}, [errs |-> <<>>, bad |-> FALSE]))

RECURSIVE LoadFrom(_, _, _, _), LoadStep(_, _, _, _, _)
LoadFrom(batch, i, out, errs) ==
    IF i > Len(batch) THEN [raised |-> FALSE, out |-> out, errors |-> errs]
    ELSE LoadStep(batch, i, out, errs, ValidateDef(batch[i], i, out))

\* the diagnostics of a file are appended to RULE_ERRORS as they are found,
\* out[rid] = obj adds an admitted object, an exception ends the load
LoadStep(batch, i, out, errs, r) ==
    IF r.verdict = "raise" THEN [raised |-> TRUE, out |-> out, errors |-> errs \o r.errs]
    ELSE LoadFrom(batch, i + 1,
                  IF r.verdict = "admit" THEN Append(out, r.obj) ELSE out,
                  errs \o r.errs)

\* load_rules without its reset: the diagnostics of earlier loads stay in the list
KeepErrors(old) == old

\* RULE_ERRORS = [] at the start of load_rules (line 489)
ResetErrors(old) == <<>>

\* load_rules over the directory listing `batch`; errors is what RULE_ERRORS
\* holds when the call ends (by return, or by the exception when raised)
load_rules(batch, old_errors) == LoadFrom(batch, 1, <<>>, ResetErrors(old_errors))

(* ------------------------ charts and predicates ----------------------- *)
\* planet_get: the first planet of the chart with that name; a lookup error
\* (ValueError) when there is none
planet_get(chart, name) ==
    LET hits == {i \in 1..Len(chart.planets) : chart.planets[i].name = name} IN
    IF hits = {} THEN [found |-> FALSE, p |-> [name |-> name, sign_num |-> 0, longitude |-> 0]]
    ELSE [found |-> TRUE, p |-> chart.planets[CHOOSE i \in hits : \A j \in hits : i <= j]]

asc_sign_num(chart) == chart.ascendant.sign_num

owns_signs(planet_name) == {s \in 1..12 : SIGN_LORD[s] = planet_name}

sign_of_house_from_asc(chart, house_num) ==
    (((asc_sign_num(chart) - 1) + (house_num - 1)) % 12) + 1

\* the digits of the inside of a 'lord(...)' token, as int() reads them;
\* -1 when there is none (int("") raises ValueError)
LordTokens == ("lord(10)" :> 10) @@ ("lord(9th)" :> 9) @@ ("lord(x)" :> -1)

\* resolve_planet: 'lord(n)' is the lord of the sign in house n from the ascendant
resolve_planet(chart, token) ==
    IF token \in DOMAIN LordTokens
    THEN IF LordTokens[token] < 0 THEN [ok |-> FALSE, name |-> token]
         ELSE [ok |-> TRUE, name |-> SIGN_LORD[sign_of_house_from_asc(chart, LordTokens[token])]]
    ELSE [ok |-> TRUE, name |-> token]

Raised == [raised |-> TRUE, bool |-> FALSE, strength |-> 0]
Categorical(ok) == [raised |-> FALSE, bool |-> ok, strength |-> IF ok THEN 1000 ELSE 0]

\* pred_planet_in_signs; strengths are in thousandths
pred_planet_in_signs(chart, params) ==
    IF params.planet = "" THEN Raised
    ELSE LET planet == resolve_planet(chart, params.planet) IN
         IF ~planet.ok THEN Raised
         ELSE LET p == planet_get(chart, planet.name) IN
              IF ~p.found THEN Raised ELSE Categorical(p.p.sign_num \in params.signs)

\* pred_planet_in_own_sign
pred_planet_in_own_sign(chart, params) ==
    IF params.planet = "" THEN Raised
    ELSE LET planet == resolve_planet(chart, params.planet) IN
         IF ~planet.ok THEN Raised
         ELSE LET p == planet_get(chart, planet.name) IN
              IF ~p.found THEN Raised ELSE Categorical(p.p.sign_num \in owns_signs(planet.name))

KARAKA_HOUSES ==
    ("Sun" :> {1, 9, 10}) @@ ("Moon" :> {4}) @@ ("Mars" :> {3, 6}) @@ ("Mercury" :> {3, 5, 10})
    @@ ("Jupiter" :> {2, 5, 9}) @@ ("Venus" :> {4, 7, 12}) @@ ("Saturn" :> {6, 8, 12})

\* whole-sign houses: house 1 is the ascendant's sign
signs_from_houses_whole(asc_num, houses) ==
    {(((asc_num - 1) + (h - 1)) % 12) + 1 : h \in houses}

\* pred_planet_in_karaka_houses_of: `of` is resolved and then only used as a key
\* of KARAKA_HOUSES.get(of, []); it is never looked up in the chart
pred_planet_in_karaka_houses_of(chart, params) ==
    IF params.planet = "" \/ params.of = "" THEN Raised
    ELSE LET planet == resolve_planet(chart, params.planet)
             of == resolve_planet(chart, params.of)
         IN  IF ~planet.ok \/ ~of.ok THEN Raised
             ELSE LET target_houses ==
                          IF of.name \in DOMAIN KARAKA_HOUSES THEN KARAKA_HOUSES[of.name] ELSE {}
                      p == planet_get(chart, planet.name)
                  IN  IF ~p.found THEN Raised
                      ELSE Categorical(p.p.sign_num \in
                               signs_from_houses_whole(asc_sign_num(chart), target_houses))

\* smallest absolute angle between a and b (0..180), whole degrees
abs_min_angle(a, b) ==
    LET d == (IF a >= b THEN a - b ELSE b - a) % 360 IN IF d <= 180 THEN d ELSE 360 - d

\* round(1.0 - delta / max(orb, 1e-6), 3) in thousandths, without the max(0.0, ...)
UnclampedCloseness(delta, orb) ==
    IF orb <= 0 THEN (IF delta = 0 THEN 1000 ELSE 0)
    ELSE (2000 * (orb - delta) + orb) \div (2 * orb)

\* round(max(0.0, 1.0 - delta / max(orb, 1e-6)), 3) in thousandths
Closeness(delta, orb) ==
    IF orb <= 0 THEN (IF delta = 0 THEN 1000 ELSE 0)
    ELSE IF delta >= orb THEN 0
    ELSE (2000 * (orb - delta) + orb) \div (2 * orb)

\* pred_conjunction: the bool is delta <= orb, the strength the closeness
pred_conjunction(chart, params) ==
    IF params.a = "" \/ params.b = "" THEN Raised
    ELSE LET a == resolve_planet(chart, params.a)
             b == resolve_planet(chart, params.b)
         IN  IF ~a.ok \/ ~b.ok THEN Raised
             ELSE LET pa == planet_get(chart, a.name)
                      pb == planet_get(chart, b.name)
                      orb == IF params.orb_deg.t = "absent" THEN 8 ELSE params.orb_deg.n
                      delta == abs_min_angle(pa.p.longitude, pb.p.longitude)
                  IN  IF ~pa.found \/ ~pb.found THEN Raised
                      ELSE [raised |-> FALSE, bool |-> delta <= orb,
                            strength |-> Closeness(delta, orb)]

\* sign-based special aspects; every other planet has the default {7}
SPECIAL_SIGN_ASPECTS ==
    ("Mars" :> {4, 7, 8}) @@ ("Jupiter" :> {5, 7, 9}) @@ ("Saturn" :> {3, 7, 10})

\* sign steps from a to b: (b - a) % 12, and 12 for 0
sign_distance(a, b) == LET d == (b - a) % 12 IN IF d = 0 THEN 12 ELSE d

does_aspect_sign(planet_name, from_sign, to_sign) ==
    sign_distance(from_sign, to_sign) \in
        (IF planet_name \in DOMAIN SPECIAL_SIGN_ASPECTS THEN SPECIAL_SIGN_ASPECTS[planet_name]
         ELSE {7})

(* ------------------- the other registered predicates ------------------ *)
EXALTATION ==
    ("Sun" :> 1) @@ ("Moon" :> 2) @@ ("Mars" :> 10) @@ ("Mercury" :> 6) @@ ("Jupiter" :> 4)
    @@ ("Venus" :> 12) @@ ("Saturn" :> 7)
MOOLA ==
    ("Sun" :> 5) @@ ("Moon" :> 2) @@ ("Mars" :> 1) @@ ("Mercury" :> 6) @@ ("Jupiter" :> 9)
    @@ ("Venus" :> 7) @@ ("Saturn" :> 11)
DEBILITATION ==
    ("Sun" :> 7) @@ ("Moon" :> 8) @@ ("Mars" :> 4) @@ ("Mercury" :> 12) @@ ("Jupiter" :> 10)
    @@ ("Venus" :> 6) @@ ("Saturn" :> 1)
HOUSE_GROUPS ==
    ("kendra" :> {1, 4, 7, 10}) @@ ("trikona" :> {1, 5, 9}) @@ ("dusthana" :> {6, 8, 12})
    @@ ("upachaya" :> {3, 6, 10, 11})

\* degree-based angles for closeness scoring
ASPECT_ANGLES ==
    [p \in {"Sun", "Moon", "Mercury", "Venus", "Mars", "Jupiter", "Saturn", "Rahu", "Ketu"} |->
        CASE p = "Mars" -> {90, 180, 240}
          [] p = "Jupiter" -> {120, 180, 240}
          [] p = "Saturn" -> {60, 180, 300}
          [] OTHER -> {180}]

\* table.get(key): the value, or 0 for None (no sign is numbered 0)
TableGet(table, key) == IF key \in DOMAIN table THEN table[key] ELSE 0

MinOf(S) == CHOOSE x \in S : \A y \in S : x <= y
MaxOf(S) == CHOOSE x \in S : \A y \in S : x >= y

\* own signs + exaltation + moolatrikona
karaka_places_for(planet_name) ==
    owns_signs(planet_name)
    \cup ({TableGet(EXALTATION, planet_name), TableGet(MOOLA, planet_name)} \ {0})

\* signed forward arc from a to b (0..359), whole degrees
degree_delta(a, b) == ((b % 360) - (a % 360)) % 360

\* aspects_deg: (within_orb, best_diff_deg); ASPECT_ANGLES[from_name] raises
\* KeyError for a name outside the table
aspects_deg(from_name, from_lon, to_lon, orb) ==
    IF from_name \notin DOMAIN ASPECT_ANGLES THEN [raised |-> TRUE, ok |-> FALSE, best |-> 0]
    ELSE LET best == MinOf({abs_min_angle(degree_delta(from_lon, to_lon), ang) :
                               ang \in ASPECT_ANGLES[from_name]})
         IN  [raised |-> FALSE, ok |-> best <= orb, best |-> best]

\* resolve_planet(chart, params[key]) followed by planet_sign_num / planet_lon:
\* not ok when the key is missing, the token does not resolve, or the chart has
\* no such planet
PlanetOf(chart, token) ==
    IF token = "" THEN [ok |-> FALSE, name |-> token, sign_num |-> 0, longitude |-> 0]
    ELSE LET r == resolve_planet(chart, token) IN
         IF ~r.ok THEN [ok |-> FALSE, name |-> token, sign_num |-> 0, longitude |-> 0]
         ELSE LET p == planet_get(chart, r.name) IN
              [ok |-> p.found, name |-> r.name, sign_num |-> p.p.sign_num,
               longitude |-> p.p.longitude]

\* the mutual-aspect hybrid of two placed planets: the sign-mutual boolean, the
\* deg_ok flag, the angle difference, and the strength scaled against max_orb
MutualOf(a, b, orb, max_orb) ==
    LET da == aspects_deg(a.name, a.longitude, b.longitude, orb)
        db == aspects_deg(b.name, b.longitude, a.longitude, orb)
        closeness == IF da.best <= db.best THEN da.best ELSE db.best
    IN  IF da.raised \/ db.raised THEN Raised
        ELSE [raised |-> FALSE,
              bool |-> does_aspect_sign(a.name, a.sign_num, b.sign_num)
                       /\ does_aspect_sign(b.name, b.sign_num, a.sign_num),
              strength |-> Closeness(closeness, max_orb),
              deg_ok |-> da.ok /\ db.ok, angle_diff |-> closeness]

\* rules_engine.pred_mutual_aspect_hybrid: strength = 1 - closeness / max(orb, 30.0)
pred_mutual_aspect_hybrid(chart, params) ==
    LET a == PlanetOf(chart, params.a)
        b == PlanetOf(chart, params.b)
        orb == IF params.orb_deg.t = "absent" THEN 30 ELSE params.orb_deg.n
    IN  IF ~a.ok \/ ~b.ok THEN Raised
        ELSE MutualOf(a, b, orb, IF orb >= 30 THEN orb ELSE 30)

\* rules.mutual_aspect_hybrid: strength = 1 - min(a_diff, b_diff) / max(orb, 1e-6)
mutual_aspect_hybrid(a_name, a_lon, a_sign, b_name, b_lon, b_sign, orb) ==
    MutualOf([name |-> a_name, sign_num |-> a_sign, longitude |-> a_lon],
             [name |-> b_name, sign_num |-> b_sign, longitude |-> b_lon], orb, orb)

\* pred_any_connection: conjunct within orb, or in mutual sign aspect
pred_any_connection(chart, params) ==
    LET orb == IF params.orb_deg.t = "absent" THEN 8 ELSE params.orb_deg.n
        cj == pred_conjunction(chart, [params EXCEPT !.orb_deg = JNum(orb)])
        ma == pred_mutual_aspect_hybrid(chart,
                  [params EXCEPT !.orb_deg = JNum(IF orb >= 15 THEN orb ELSE 15)])
    IN  IF cj.raised \/ ma.raised THEN Raised
        ELSE [raised |-> FALSE, bool |-> cj.bool \/ ma.bool,
              strength |-> IF cj.strength >= ma.strength THEN cj.strength ELSE ma.strength]

pred_planet_in_karaka_places_of(chart, params) ==
    LET planet == PlanetOf(chart, params.planet) IN
    IF ~planet.ok \/ params.of = "" THEN Raised
    ELSE LET of == resolve_planet(chart, params.of) IN
         IF ~of.ok THEN Raised
         ELSE Categorical(planet.sign_num \in karaka_places_for(of.name))

\* HOUSE_GROUPS[params["group"]] raises KeyError for a missing or unknown group
pred_planet_in_house_group_from_asc(chart, params) ==
    LET planet == PlanetOf(chart, params.planet) IN
    IF ~planet.ok \/ params.group \notin DOMAIN HOUSE_GROUPS THEN Raised
    ELSE Categorical(planet.sign_num \in
             signs_from_houses_whole(asc_sign_num(chart), HOUSE_GROUPS[params.group]))

\* params["house"]: 0 stands for a bag without the key (KeyError)
pred_planet_in_house_from_asc(chart, params) ==
    LET planet == PlanetOf(chart, params.planet) IN
    IF ~planet.ok \/ params.house = 0 THEN Raised
    ELSE Categorical(planet.sign_num = sign_of_house_from_asc(chart, params.house))

pred_planet_in_exaltation(chart, params) ==
    LET planet == PlanetOf(chart, params.planet) IN
    IF ~planet.ok THEN Raised
    ELSE Categorical(planet.sign_num = TableGet(EXALTATION, planet.name))

pred_planet_debilitated(chart, params) ==
    LET planet == PlanetOf(chart, params.planet) IN
    IF ~planet.ok THEN Raised
    ELSE Categorical(planet.sign_num = TableGet(DEBILITATION, planet.name))

\* EXALTATION[planet] raises KeyError for a planet without exaltation sign
pred_exaltation_lord_support(chart, params) ==
    IF params.planet = "" THEN Raised
    ELSE LET planet == resolve_planet(chart, params.planet) IN
         IF ~planet.ok \/ planet.name \notin DOMAIN EXALTATION THEN Raised
         ELSE pred_any_connection(chart,
                  [params EXCEPT !.a = SIGN_LORD[EXALTATION[planet.name]], !.b = planet.name,
                                 !.orb_deg = IF @.t = "absent" THEN JNum(30) ELSE @])

pred_debilitation_lord_support(chart, params) ==
    IF params.planet = "" THEN Raised
    ELSE LET planet == resolve_planet(chart, params.planet) IN
         IF ~planet.ok \/ planet.name \notin DOMAIN DEBILITATION THEN Raised
         ELSE pred_any_connection(chart,
                  [params EXCEPT !.a = SIGN_LORD[DEBILITATION[planet.name]], !.b = planet.name,
                                 !.orb_deg = IF @.t = "absent" THEN JNum(30) ELSE @])

pred_lord_exchange(chart, params) ==
    LET a == PlanetOf(chart, params.a)
        b == PlanetOf(chart, params.b)
    IN  IF ~a.ok \/ ~b.ok THEN Raised
        ELSE Categorical(SIGN_LORD[a.sign_num] = b.name /\ SIGN_LORD[b.sign_num] = a.name)

\* pred_kendra_from: a in signs +0/+3/+6/+9 from b; the strength is the degree
\* closeness to 0/90/180/270 from b's longitude
pred_kendra_from(chart, params) ==
    LET a == PlanetOf(chart, params.a)
        b == PlanetOf(chart, params.b)
        include_conj == params.include_conjunction.t = "absent" \/ Truthy(params.include_conjunction)
        orb == IF params.orb_deg.t = "absent" THEN 12 ELSE params.orb_deg.n
        ok_by_sign == a.sign_num \in {(((b.sign_num - 1) + k) % 12) + 1 : k \in {0, 3, 6, 9}}
        diff == MinOf({abs_min_angle(degree_delta(b.longitude, a.longitude), ang) :
                          ang \in {0, 90, 180, 270}})
    IN  IF ~a.ok \/ ~b.ok THEN Raised
        ELSE [raised |-> FALSE,
              bool |-> IF include_conj THEN ok_by_sign
                       ELSE ok_by_sign /\ a.sign_num # b.sign_num,
              strength |-> Closeness(diff, orb)]

\* _YK_BY_ASC.get(asc_sign_num(chart), [])
yogakaraka_planets(chart) ==
    CASE asc_sign_num(chart) \in {2, 7} -> <<"Saturn">>
      [] asc_sign_num(chart) \in {4, 5} -> <<"Mars">>
      [] asc_sign_num(chart) \in {10, 11} -> <<"Venus">>
      [] OTHER -> <<>>

\* every planet of the list is in the chart (planet_sign_num raises otherwise)
AllFound(chart, planets) == \A i \in 1..Len(planets) : planet_get(chart, planets[i]).found

pred_any_yogakaraka(chart, params) == Categorical(yogakaraka_planets(chart) # <<>>)

pred_yogakaraka_in_group_from_asc(chart, params) ==
    LET yk == yogakaraka_planets(chart) IN
    IF yk = <<>> THEN Categorical(FALSE)
    ELSE IF params.group \notin DOMAIN HOUSE_GROUPS \/ ~AllFound(chart, yk) THEN Raised
    ELSE Categorical(\E i \in 1..Len(yk) :
             planet_get(chart, yk[i]).p.sign_num \in
                 signs_from_houses_whole(asc_sign_num(chart), HOUSE_GROUPS[params.group]))

pred_yogakaraka_strong_place(chart, params) ==
    LET yk == yogakaraka_planets(chart) IN
    IF ~AllFound(chart, yk) THEN Raised
    ELSE Categorical(\E i \in 1..Len(yk) :
             planet_get(chart, yk[i]).p.sign_num \in karaka_places_for(yk[i]))

\* waxing: Moon ahead of Sun by 0..180 degrees
is_moon_waxing(chart) ==
    degree_delta(planet_get(chart, "Sun").p.longitude, planet_get(chart, "Moon").p.longitude) < 180

get_benefics(chart) ==
    <<"Jupiter", "Venus">> \o (IF is_moon_waxing(chart) THEN <<"Moon">> ELSE <<>>) \o <<"Mercury">>

get_malefics(chart) ==
    <<"Sun", "Mars", "Saturn">> \o (IF is_moon_waxing(chart) THEN <<>> ELSE <<"Moon">>)
    \o <<"Rahu", "Ketu">>

\* any(planet_sign_num(chart, p) == target_sign for p in planets): any() stops
\* at the first hit, so only a planet missing before it raises
any_planet_in_sign(chart, planets, target_sign) ==
    LET hits == {i \in 1..Len(planets) :
                    planet_get(chart, planets[i]).found
                    /\ planet_get(chart, planets[i]).p.sign_num = target_sign}
        first == IF hits = {} THEN Len(planets) + 1 ELSE MinOf(hits)
    IN  [raised |-> \E i \in 1..(first - 1) : ~planet_get(chart, planets[i]).found,
         hit |-> hits # {}]

\* planets_aspect_sign: some planet of the list aspects target_sign by sign;
\* the strength is the best closeness to the sign's midpoint within 30 degrees
planets_aspect_sign(chart, planets, target_sign) ==
    LET asp == {i \in 1..Len(planets) :
                   does_aspect_sign(planets[i], planet_get(chart, planets[i]).p.sign_num,
                                    target_sign)}
    IN  IF ~AllFound(chart, planets) THEN [raised |-> TRUE, hit |-> FALSE, strength |-> 0]
        ELSE [raised |-> FALSE, hit |-> asp # {},
              strength |-> IF asp = {} THEN 0
                           ELSE MaxOf({Closeness(aspects_deg(planets[i],
                                                     planet_get(chart, planets[i]).p.longitude,
                                                     (target_sign - 1) * 30 + 15, 30).best, 30) :
                                          i \in asp})]

\* get_benefics / get_malefics read the longitudes of Sun and Moon
Luminaries == <<"Sun", "Moon">>

pred_benefics_occupy_house_from_asc(chart, params) ==
    IF params.house = 0 \/ ~AllFound(chart, Luminaries) THEN Raised
    ELSE LET r == any_planet_in_sign(chart, get_benefics(chart),
                                     sign_of_house_from_asc(chart, params.house))
         IN  IF r.raised THEN Raised ELSE Categorical(r.hit)

pred_benefics_aspect_house_from_asc(chart, params) ==
    IF params.house = 0 \/ ~AllFound(chart, Luminaries) THEN Raised
    ELSE LET r == planets_aspect_sign(chart, get_benefics(chart),
                                      sign_of_house_from_asc(chart, params.house))
         IN  IF r.raised THEN Raised
             ELSE [raised |-> FALSE, bool |-> r.hit, strength |-> r.strength]

pred_malefics_occupy_house_from_asc(chart, params) ==
    IF params.house = 0 \/ ~AllFound(chart, Luminaries) THEN Raised
    ELSE LET r == any_planet_in_sign(chart, get_malefics(chart),
                                     sign_of_house_from_asc(chart, params.house))
         IN  IF r.raised THEN Raised ELSE Categorical(r.hit)

pred_malefics_aspect_house_from_asc(chart, params) ==
    IF params.house = 0 \/ ~AllFound(chart, Luminaries) THEN Raised
    ELSE LET r == planets_aspect_sign(chart, get_malefics(chart),
                                      sign_of_house_from_asc(chart, params.house))
         IN  IF r.raised THEN Raised
             ELSE [raised |-> FALSE, bool |-> r.hit, strength |-> r.strength]

\* ashtakavarga.sav_lite: the points of house h, in thousandths
sav_lite(chart, h) ==
    LET s == sign_of_house_from_asc(chart, h)
        ob == any_planet_in_sign(chart, get_benefics(chart), s)
        ab == planets_aspect_sign(chart, get_benefics(chart), s)
        om == any_planet_in_sign(chart, get_malefics(chart), s)
        am == planets_aspect_sign(chart, get_malefics(chart), s)
    IN  [raised |-> ob.raised \/ ab.raised \/ om.raised \/ am.raised,
         score |-> (IF ob.hit THEN 1000 ELSE 0) + (IF ab.hit THEN ab.strength ELSE 0)
                   - (IF om.hit THEN 1000 ELSE 0) - (IF am.hit THEN am.strength ELSE 0)]

\* ashtakavarga.house_score: sav_lite computes all twelve rows; 0.0 for a house
\* outside 1..12
house_score(chart, house) ==
    [raised |-> ~AllFound(chart, Luminaries) \/ \E h \in 1..12 : sav_lite(chart, h).raised,
     val |-> IF house \in 1..12 THEN sav_lite(chart, house).score ELSE 0]

\* pred_sav_lite_threshold: strength = round(max(0, min(1, (val + 2) / 4)), 3)
pred_sav_lite_threshold(chart, params) ==
    LET r == house_score(chart, params.house)
        threshold == IF params.min.t = "absent" THEN 500 ELSE params.min.n
        mapped == (r.val + 2002) \div 4
    IN  IF params.house = 0 \/ r.raised THEN Raised
        ELSE [raised |-> FALSE, bool |-> r.val >= threshold,
              strength |-> IF mapped < 0 THEN 0 ELSE IF mapped > 1000 THEN 1000 ELSE mapped]

\* PREDICATES[pred](chart, params)
ApplyPredicate(pred, chart, params) ==
    CASE pred = "planet_in_signs" -> pred_planet_in_signs(chart, params)
      [] pred = "planet_in_own_sign" -> pred_planet_in_own_sign(chart, params)
      [] pred = "planet_in_karaka_houses_of" -> pred_planet_in_karaka_houses_of(chart, params)
      [] pred = "planet_in_karaka_places_of" -> pred_planet_in_karaka_places_of(chart, params)
      [] pred = "mutual_aspect_hybrid" -> pred_mutual_aspect_hybrid(chart, params)
      [] pred = "conjunction" -> pred_conjunction(chart, params)
      [] pred = "any_connection" -> pred_any_connection(chart, params)
      [] pred = "planet_in_house_group_from_asc" -> pred_planet_in_house_group_from_asc(chart, params)
      [] pred = "planet_in_house_from_asc" -> pred_planet_in_house_from_asc(chart, params)
      [] pred = "planet_in_exaltation" -> pred_planet_in_exaltation(chart, params)
      [] pred = "planet_debilitated" -> pred_planet_debilitated(chart, params)
      [] pred = "exaltation_lord_support" -> pred_exaltation_lord_support(chart, params)
      [] pred = "debilitation_lord_support" -> pred_debilitation_lord_support(chart, params)
      [] pred = "lord_exchange" -> pred_lord_exchange(chart, params)
      [] pred = "kendra_from" -> pred_kendra_from(chart, params)
      [] pred = "any_yogakaraka" -> pred_any_yogakaraka(chart, params)
      [] pred = "yogakaraka_in_group_from_asc" -> pred_yogakaraka_in_group_from_asc(chart, params)
      [] pred = "yogakaraka_strong_place" -> pred_yogakaraka_strong_place(chart, params)
      [] pred = "benefics_occupy_house_from_asc" -> pred_benefics_occupy_house_from_asc(chart, params)
      [] pred = "benefics_aspect_house_from_asc" -> pred_benefics_aspect_house_from_asc(chart, params)
      [] pred = "malefics_occupy_house_from_asc" -> pred_malefics_occupy_house_from_asc(chart, params)
      [] pred = "malefics_aspect_house_from_asc" -> pred_malefics_aspect_house_from_asc(chart, params)
      [] pred = "sav_lite_threshold" -> pred_sav_lite_threshold(chart, params)

(* -------------------- eval() of a status expression -------------------- *)
\* Python's eval over the lexemes and / or / not / True / False / ( / ) and
\* names.  Values: "T", "F", "U" (the empty tuple of "( )"), and "X" for an
\* exception at run time (NameError for a name that is not in the context,
\* TypeError for a call); ok = FALSE is a SyntaxError.
PyKeywords == {"and", "or", "not", "True", "False", "(", ")"}
SyntaxErr == [ok |-> FALSE, pos |-> 0, v |-> "X"]
Val(pos, v) == [ok |-> TRUE, pos |-> pos, v |-> v]
At(toks, i) == IF i <= Len(toks) THEN toks[i] ELSE "<end>"

PyNot(x) == CASE x = "X" -> "X" [] x = "T" -> "F" [] OTHER -> "T"
PyAnd(x, y) == IF x \in {"X", "F", "U"} THEN x ELSE y
PyOr(x, y) == IF x \in {"X", "T"} THEN x ELSE y

Lookup(ctx, name) ==
    IF name \in DOMAIN ctx THEN (IF ctx[name] THEN "T" ELSE "F") ELSE "X"

RECURSIVE ParseOr(_, _, _), OrRest(_, _, _), ParseAnd(_, _, _), AndRest(_, _, _)
RECURSIVE ParseNot(_, _, _), ParseAtom(_, _, _), Trailers(_, _, _)

ParseOr(toks, i, ctx) ==
    LET l == ParseAnd(toks, i, ctx) IN IF ~l.ok THEN SyntaxErr ELSE OrRest(toks, l, ctx)

OrRest(toks, l, ctx) ==
    IF At(toks, l.pos) # "or" THEN l
    ELSE LET r == ParseAnd(toks, l.pos + 1, ctx) IN
         IF ~r.ok THEN SyntaxErr ELSE OrRest(toks, Val(r.pos, PyOr(l.v, r.v)), ctx)

ParseAnd(toks, i, ctx) ==
    LET l == ParseNot(toks, i, ctx) IN IF ~l.ok THEN SyntaxErr ELSE AndRest(toks, l, ctx)

AndRest(toks, l, ctx) ==
    IF At(toks, l.pos) # "and" THEN l
    ELSE LET r == ParseNot(toks, l.pos + 1, ctx) IN
         IF ~r.ok THEN SyntaxErr ELSE AndRest(toks, Val(r.pos, PyAnd(l.v, r.v)), ctx)

ParseNot(toks, i, ctx) ==
    IF At(toks, i) = "not"
    THEN LET r == ParseNot(toks, i + 1, ctx) IN
         IF ~r.ok THEN SyntaxErr ELSE Val(r.pos, PyNot(r.v))
    ELSE LET a == ParseAtom(toks, i, ctx) IN
         IF ~a.ok THEN SyntaxErr ELSE Trailers(toks, a, ctx)

ParseAtom(toks, i, ctx) ==
    LET tok == At(toks, i) IN
    IF tok = "True" THEN Val(i + 1, "T")
    ELSE IF tok = "False" THEN Val(i + 1, "F")
    ELSE IF tok = "("
    THEN IF At(toks, i + 1) = ")" THEN Val(i + 2, "U")
         ELSE LET r == ParseOr(toks, i + 1, ctx) IN
              IF r.ok /\ At(toks, r.pos) = ")" THEN Val(r.pos + 1, r.v) ELSE SyntaxErr
    ELSE IF tok \in PyKeywords \/ tok = "<end>" THEN SyntaxErr
    ELSE Val(i + 1, Lookup(ctx, tok))

\* a call "f ( )" or "f ( x )": the callee is a bool or a tuple, so TypeError
Trailers(toks, a, ctx) ==
    IF At(toks, a.pos) # "(" THEN a
    ELSE IF At(toks, a.pos + 1) = ")" THEN Trailers(toks, Val(a.pos + 2, "X"), ctx)
    ELSE LET r == ParseOr(toks, a.pos + 1, ctx) IN
         IF r.ok /\ At(toks, r.pos) = ")" THEN Trailers(toks, Val(r.pos + 1, "X"), ctx)
         ELSE SyntaxErr

\* _safe_eval(expr): eval(expr, {...}, {**ctx, "True": True, "False": False})
_safe_eval(expr, ctx) ==
    LET r == ParseOr(expr, 1, ctx) IN
    IF r.ok /\ r.pos = Len(expr) + 1 THEN [error |-> r.v = "X", v |-> r.v]
    ELSE [error |-> TRUE, v |-> "X"]

(* ----------------------------- evaluator ------------------------------ *)
\* the signals loop of evaluate_rule (lines 640-648): the results in
\* declaration order, or raised when a predicate raises
\* lines 643-645: params = dict(sig.get("params", {})), and the rule's default
\* orb when the bag names none
params_of(sig, orb_def) ==
    IF sig.params.orb_deg.t = "absent" THEN [sig.params EXCEPT !.orb_deg = orb_def]
    ELSE sig.params

\* the bag is the signal's own dict, not a copy of it
AliasedParams(sig, orb_def) == params_of(sig, orb_def)

\* what sig["params"] holds after the evaluation: dict(...) made a private
\* copy, so the default orb went to the copy only
StoredParams(sig, orb_def) == sig.params

\* line 634: orb_def = float(rule.get("orb_deg", 30.0))
orb_def(rule) == IF rule.orb_deg.t = "absent" THEN JNum(30) ELSE rule.orb_deg

\* the rule object after evaluate_rule has run over its signals
RuleAfterEval(rule) ==
    [rule EXCEPT !.signals.items =
        [i \in 1..Len(rule.signals.items) |->
            [rule.signals.items[i] EXCEPT !.params = StoredParams(rule.signals.items[i], orb_def(rule))]]]

RECURSIVE ComputeSignals(_, _, _, _, _)
\* lines 646-647: res = PREDICATES[pred](chart, params); signals_res[sid] = res
SignalStep(chart, signals, orb, i, acc, sig, res) ==
    IF res.raised THEN [raised |-> TRUE, res |-> acc]
    ELSE ComputeSignals(chart, signals, orb, i + 1,
             Append(acc, [id |-> sig.id.s, predicate |-> sig.predicate.s,
                          bool |-> res.bool, strength |-> res.strength]))

ComputeSignals(chart, signals, orb, i, acc) ==
    IF i > Len(signals) THEN [raised |-> FALSE, res |-> acc]
    ELSE SignalStep(chart, signals, orb, i, acc, signals[i],
                    ApplyPredicate(signals[i].predicate.s, chart, params_of(signals[i], orb)))

SignalOf(signals_res, sid) ==
    signals_res[CHOOSE i \in 1..Len(signals_res) : signals_res[i].id = sid]

\* the weighted sums of lines 651-657: raw in thousandths, and wsum, over the
\* finite weights; inf when a weight is +infinity (then wsum is +infinity and
\* raw is +infinity or, by inf * 0.0, NaN)
RECURSIVE WeightedSum(_, _, _, _, _)
WeightedSum(kv, i, signals_res, strength_flags, acc) ==
    IF i > Len(kv) THEN acc
    ELSE LET sid == kv[i].k
             w == kv[i].v
             val == SignalOf(signals_res, sid)
             use_strength == Truthy(Get(strength_flags, sid, JBool(FALSE)))
             v == IF use_strength THEN val.strength ELSE IF val.bool THEN 1000 ELSE 0
         IN  WeightedSum(kv, i + 1, signals_res, strength_flags,
                         IF w.s = "inf" THEN [acc EXCEPT !.inf = TRUE]
                         ELSE [acc EXCEPT !.raw = @ + w.n * v, !.wsum = @ + w.n])

\* a float result: NaN, or the fraction num / den
NaN == [nan |-> TRUE, num |-> 0, den |-> 1]
Frac(num, den) == [nan |-> FALSE, num |-> num, den |-> den]

\* line 658: score = (raw / wsum) if wsum > 0 else 0.0; with an infinite
\* weight wsum > 0 holds and inf / inf (or nan / inf) is NaN
score(sums) ==
    IF sums.inf THEN NaN
    ELSE IF sums.wsum > 0 THEN Frac(sums.raw, 1000 * sums.wsum) ELSE Frac(0, 1)

\* round(score, 3) in thousandths, score = raw / wsum if wsum > 0 else 0
RoundedScore(raw, wsum) == IF wsum > 0 THEN (2 * raw + wsum) \div (2 * wsum) ELSE 0

\* line 677: round(score, 3); NaN stays NaN
round3(sums) == [nan |-> sums.inf, n |-> IF sums.inf THEN 0 ELSE RoundedScore(sums.raw, sums.wsum)]

IsTrue(v) == v = "T"

NoVerdict ==
    [id |-> "", status |-> "", score |-> [nan |-> FALSE, n |-> 0], signals |-> <<>>,
     weights |-> <<>>, explain |-> <<>>]
EvalFail == [raised |-> TRUE, verdict |-> NoVerdict, score |-> Frac(0, 1)]

HasExpr(e) == e.t = "str" /\ Len(e.toks) > 0

\* (active_if and _safe_eval(active_if)) or any(ctx.values()): active_if is
\* evaluated first, so its exception surfaces even when a signal is true
ActiveBranch(rule, ctx, any, active) ==
    IF ~HasExpr(rule.active_if) THEN (IF any THEN "active" ELSE "inactive")
    ELSE IF active.error THEN "raise"
    ELSE IF IsTrue(active.v) \/ any THEN "active" ELSE "inactive"

StrongBranch(rule, ctx, any, strong) ==
    IF strong.error THEN "raise"
    ELSE IF IsTrue(strong.v) THEN "strong"
    ELSE ActiveBranch(rule, ctx, any, _safe_eval(rule.active_if.toks, ctx))

\* status selection that consults active_if also when there is no strong_if
SelectStatusByActiveIf(rule, ctx, any) ==
    IF HasExpr(rule.strong_if)
    THEN StrongBranch(rule, ctx, any, _safe_eval(rule.strong_if.toks, ctx))
    ELSE ActiveBranch(rule, ctx, any, _safe_eval(rule.active_if.toks, ctx))

\* status selection (lines 667-672); "raise" when eval of an expression fails
SelectStatus(rule, ctx, any) ==
    IF HasExpr(rule.strong_if)
    THEN StrongBranch(rule, ctx, any, _safe_eval(rule.strong_if.toks, ctx))
    ELSE IF any THEN "active" ELSE "inactive"

\* a trace line "<sid>: <pred> -> YES|NO (strength=...)" of line 648
ExplainLine(res) ==
    [id |-> res.id, predicate |-> res.predicate, yes |-> res.bool, strength |-> res.strength]

\* a trace that puts each new line in front of the earlier ones
ExplainPrepended(signals_res) ==
    [i \in 1..Len(signals_res) |-> ExplainLine(signals_res[Len(signals_res) + 1 - i])]

\* lines 637 and 648: explain starts empty and gets one line appended per
\* signal, inside the loop over rule["signals"]
explain(signals_res) ==
    [i \in 1..Len(signals_res) |-> ExplainLine(signals_res[i])]

Ctx(signals_res) ==
    [sid \in {signals_res[i].id : i \in 1..Len(signals_res)} |-> SignalOf(signals_res, sid).bool]

Verdict(rule, weights, signals_res, sums, status) ==
    IF status = "raise" THEN EvalFail
    ELSE [raised |-> FALSE, score |-> score(sums),
          verdict |-> [id |-> rule.id.s, status |-> status,
                       score |-> round3(sums),
                       signals |-> signals_res, weights |-> weights.kv,
                       explain |-> explain(signals_res)]]

\* lines 650-682, after the signals loop; strength_flags.get raises
\* AttributeError when strength_weights is no object and weights has a key
AfterCompute(rule, weights, strength_flags, sr) ==
    IF sr.raised THEN EvalFail
    ELSE IF Len(weights.kv) > 0 /\ strength_flags.t # "obj" THEN EvalFail
    ELSE Verdict(rule, weights, sr.res,
                 WeightedSum(weights.kv, 1, sr.res, strength_flags,
                             [raw |-> 0, wsum |-> 0, inf |-> FALSE]),
                 SelectStatus(rule, Ctx(sr.res), \E i \in 1..Len(sr.res) : sr.res[i].bool))

\* evaluate_rule(chart, rule): the verdict, or raised when a predicate raises,
\* when strength_weights is no object, or when eval of a status expression fails
evaluate_rule(chart, rule) ==
    AfterCompute(rule,
                 IF rule.weights.t = "absent" THEN JObj(<<>>) ELSE rule.weights,
                 IF rule.strength_weights.t = "absent" THEN JObj(<<>>) ELSE rule.strength_weights,
                 ComputeSignals(chart, rule.signals.items, orb_def(rule), 1, <<>>))

CacheIds(cache) == [i \in 1..Len(cache) |-> cache[i].id.s]

\* dict lookup cache[rid] / cache.get(rid)
CacheHas(cache, rid) == \E i \in 1..Len(cache) : cache[i].id.s = rid
CacheGet(cache, rid) == cache[CHOOSE i \in 1..Len(cache) : cache[i].id.s = rid]

\* evaluate_all when no reload interleaves: one verdict per cached rule, in
\* cache order; the exception of any rule's evaluation propagates
RECURSIVE EvalAllFrom(_, _, _, _), EvalAllStep(_, _, _, _, _)
EvalAllFrom(chart, cache, i, acc) ==
    IF i > Len(cache) THEN [raised |-> FALSE, verdicts |-> acc]
    ELSE EvalAllStep(chart, cache, i, acc, evaluate_rule(chart, cache[i]))

EvalAllStep(chart, cache, i, acc, r) ==
    IF r.raised THEN [raised |-> TRUE, verdicts |-> <<>>]
    ELSE EvalAllFrom(chart, cache, i + 1, Append(acc, r.verdict))

evaluate_all(chart, cache) == EvalAllFrom(chart, cache, 1, <<>>)

(* ------------------------------ inputs -------------------------------- *)
Expr(toks) == [t |-> "str", toks |-> toks]
NoExpr == [t |-> "absent", toks |-> <<>>]
Params(planet, signs) ==
    [t |-> "obj", planet |-> planet, signs |-> signs, a |-> "", b |-> "", of |-> "",
     orb_deg |-> JAbsent, group |-> "", house |-> 0, include_conjunction |-> JAbsent,
     min |-> JAbsent]
Sig(id, predicate, params) == [obj |-> TRUE, id |-> id, predicate |-> predicate, params |-> params]
SigList(items) == [t |-> "list", items |-> items]

SigA == Sig(JStr("a"), JStr("planet_in_own_sign"), Params("Saturn", {}))
SigB == Sig(JStr("b"), JStr("planet_in_signs"), Params("lord(10)", {1, 8}))

\* a minimal valid definition: id and one signal
Rule(id, items) ==
    [kind |-> "object", disabled |-> JAbsent, id |-> JStr(id), signals |-> SigList(items),
     weights |-> JAbsent, strength_weights |-> JAbsent,
     strong_if |-> NoExpr, active_if |-> NoExpr, orb_deg |-> JAbsent]

\* valid, every optional field in use
V1 == [Rule("r1", <<SigA, SigB>>) EXCEPT
          !.weights = JObj(<<KV("a", JNum(1)), KV("b", JStr("2"))>>),
          !.strength_weights = JObj(<<KV("a", JBool(TRUE))>>),
          !.strong_if = Expr(<<"a", "and", "b">>),
          !.active_if = Expr(<<"a", "or", "b">>),
          !.orb_deg = JNum(10)]
V2 == Rule("r2", <<SigA>>)
\* id r1 again, every kind of bad signal at once
BadSignals ==
    Rule("r1", <<[SigA EXCEPT !.obj = FALSE],
                 [SigA EXCEPT !.id = JAbsent],
                 SigA,
                 SigA,
                 Sig(JStr("c"), JAbsent, Params("Saturn", {})),
                 Sig(JStr("c"), JStr("bogus"), Params("Saturn", {})),
                 Sig(JStr("c"), JStr("conjunction"), [Params("Saturn", {}) EXCEPT !.t = "list"])>>)
WeightsNull == [Rule("r2", <<SigA>>) EXCEPT !.weights = JNull]
WeightsEmptyList == [Rule("r3", <<SigA>>) EXCEPT !.weights = JList(0)]
\* lowercase boolean in a status expression
LowerTrue == [Rule("r3", <<SigA>>) EXCEPT !.strong_if = Expr(<<"a", "and", "true">>)]
\* bad weights, strength_weights and status expressions at once
BadFields ==
    [Rule("r2", <<SigA>>) EXCEPT
          !.weights = JObj(<<KV("z", JNum(1)), KV("a", JNull)>>),
          !.strength_weights = JObj(<<KV("z", JNum(1))>>),
          !.strong_if = Expr(<<"a", "and", "c">>),
          !.active_if = Expr(<<"os.system">>)]
CoreDefs == {V1, V2, BadSignals, WeightsNull}

Dangling == [Rule("r3", <<SigA>>) EXCEPT !.strong_if = Expr(<<"a", "and">>)]
CallExpr == [Rule("r3", <<SigA>>) EXCEPT !.active_if = Expr(<<"a", "(", "a", ")">>),
                                         !.strong_if = Expr(<<"(", ")">>)]
WrongTypes ==
    [Rule("r2", <<SigA>>) EXCEPT !.weights = JList(1), !.strength_weights = JStr("x"),
                                 !.strong_if = [t |-> "null", toks |-> <<>>]]
StrengthNull == [Rule("r2", <<SigA>>) EXCEPT !.weights = JObj(<<KV("a", JNum(1))>>),
                                             !.strength_weights = JNull]
BadOrb == [Rule("r2", <<SigA>>) EXCEPT !.orb_deg = JStr("wide")]
NoPlanet == Rule("r3", <<Sig(JStr("a"), JStr("planet_in_signs"), Params("Pluto", {1}))>>)
Disabled == [V2 EXCEPT !.disabled = JBool(TRUE)]
EdgeDefs ==
    {LowerTrue, BadFields, WeightsEmptyList, Dangling, CallExpr, WrongTypes, StrengthNull, BadOrb, NoPlanet, Disabled,
     [V2 EXCEPT !.kind = "other_file"], [V2 EXCEPT !.kind = "invalid_json"],
     [V2 EXCEPT !.kind = "array"], [V2 EXCEPT !.id = JAbsent], [V2 EXCEPT !.id = JNum(7)],
     [V2 EXCEPT !.signals = SigList(<<>>)]}

RECURSIVE SeqsUpTo(_, _)
SeqsUpTo(S, n) ==
    IF n = 0 THEN {<<>>}
    ELSE LET shorter == SeqsUpTo(S, n - 1) IN
         shorter \cup {Append(b, d) : b \in shorter, d \in S}

\* directory listings: every listing of up to MaxBatch core files, and every
\* edge file followed by a valid one
Batches == SeqsUpTo(CoreDefs, MaxBatch) \cup {<<d, V1>> : d \in EdgeDefs}

Planet(name, sign_num) == [name |-> name, sign_num |-> sign_num, longitude |-> (sign_num - 1) * 30 + 15]
Chart(asc, planets) == [ascendant |-> [sign_num |-> asc], planets |-> planets]
\* ascendant Aries: the lord of house 10 (Capricorn) is Saturn
Charts == {Chart(1, <<Planet("Saturn", 10), Planet("Mars", 1)>>),
           Chart(1, <<Planet("Saturn", 8), Planet("Mars", 4)>>),
           Chart(1, <<Planet("Saturn", 7), Planet("Mars", 4)>>)}

RuleIds == {"r1", "r2", "r3", "r9"}

(* --------------------------- the service ------------------------------ *)
VARIABLES
    RULES_CACHE,       \* rules_engine.RULES_CACHE: the admitted rules, in insertion order
    RULE_ERRORS,       \* rules_engine.RULE_ERRORS
    main_RULES_CACHE,  \* the name RULES_CACHE of main.py, bound by its import
    rulesets,          \* the directory listing read by the latest reload
    response,          \* what the latest handler returned
    last_report,       \* what the latest reload returned
    same_again,        \* the latest reload read the listing the reload before it read
    threads            \* per worker thread: where it is in its handler, and its locals

vars ==
    <<RULES_CACHE, RULE_ERRORS, main_RULES_CACHE, rulesets, response, last_report, same_again,
      threads>>

NoResponse == [op |-> "none"]

\* the worker threads of the server's thread pool (the handlers are plain defs)
Threads == {"t1", "t2"}
NoChart == Chart(0, <<>>)
Idle == [pc |-> "idle", batch |-> <<>>, i |-> 0, out |-> <<>>, count |-> 0, ids |-> <<>>,
         chart |-> NoChart, iter |-> <<>>, pos |-> 0, verdicts |-> <<>>, result |-> NoResponse]

\* the module globals after import: main.py's `from .rules_engine import
\* RULES_CACHE` binds its own name to the dict the global holds at that time
Init ==
    /\ RULES_CACHE = <<>>
    /\ RULE_ERRORS = <<>>
    /\ main_RULES_CACHE = RULES_CACHE
    /\ rulesets = <<>>
    /\ response = NoResponse
    /\ last_report = NoResponse
    /\ same_again = FALSE
    /\ threads = [t \in Threads |-> Idle]

Report(raised, cache, errors) ==
    [op |-> "reload", raised |-> raised, count |-> Len(cache), ids |-> CacheIds(cache),
     errors |-> errors]

\* reload_rules: RULES_CACHE = load_rules() rebinds the global of rules_engine
\* and the report reads the globals; when load_rules raises, only RULE_ERRORS
\* has changed and there is no report
Reloaded(cache, l) ==
    IF l.raised
    THEN [cache |-> cache, errors |-> l.errors, response |-> Report(TRUE, <<>>, <<>>)]
    ELSE [cache |-> l.out, errors |-> l.errors, response |-> Report(FALSE, l.out, l.errors)]

reload_rules(batch, cache, errors) == Reloaded(cache, load_rules(batch, errors))

\* POST /rules/reload
rules_reload ==
    \E batch \in Batches :
        LET r == reload_rules(batch, RULES_CACHE, RULE_ERRORS) IN
        /\ same_again' = (last_report.op = "reload" /\ batch = rulesets)
        /\ rulesets' = batch
        /\ RULES_CACHE' = r.cache
        /\ RULE_ERRORS' = r.errors
        /\ response' = r.response
        /\ last_report' = r.response
        /\ UNCHANGED <<main_RULES_CACHE, threads>>

\* GET /rules/list
rules_list ==
    /\ response' = [op |-> "list", count |-> Len(main_RULES_CACHE),
                    ids |-> CacheIds(main_RULES_CACHE)]
    /\ UNCHANGED <<RULES_CACHE, RULE_ERRORS, main_RULES_CACHE, rulesets, last_report, same_again,
                     threads>>

EvalAllResponse(r) == [op |-> "eval_all", raised |-> r.raised, verdicts |-> r.verdicts]

\* POST /rules/evaluate/all
rules_eval_all ==
    \E chart \in Charts :
        /\ response' = EvalAllResponse(evaluate_all(chart, RULES_CACHE))
        /\ UNCHANGED <<RULES_CACHE, RULE_ERRORS, main_RULES_CACHE, rulesets, last_report, same_again,
                     threads>>

EvalOneResponse(rule_id, r) ==
    [op |-> "eval_one", rule_id |-> rule_id, raised |-> r.raised, not_loaded |-> FALSE,
     verdict |-> r.verdict]

\* POST /rules/evaluate/{rule_id}
rules_eval_one ==
    \E chart \in Charts, rule_id \in RuleIds :
        /\ response' =
              IF ~CacheHas(main_RULES_CACHE, rule_id)
              THEN [op |-> "eval_one", rule_id |-> rule_id, raised |-> FALSE,
                    not_loaded |-> TRUE, verdict |-> NoVerdict]
              ELSE EvalOneResponse(rule_id,
                                   evaluate_rule(chart, CacheGet(main_RULES_CACHE, rule_id)))
        /\ UNCHANGED <<RULES_CACHE, RULE_ERRORS, main_RULES_CACHE, rulesets, last_report, same_again,
                     threads>>

Next == rules_reload \/ rules_list \/ rules_eval_all \/ rules_eval_one

Spec == Init /\ [][Next]_vars

(* ----------------- the handlers as interleaved threads ---------------- *)
\* One step is what a thread does between two accesses of the module globals
\* RULES_CACHE and RULE_ERRORS; every access reads the name's current binding.
V1b == Rule("r1", <<SigB>>)
ConcBatches == {<<>>, <<V1, V2>>, <<V1b>>, <<BadOrb, V2>>, <<V2, WeightsNull>>}

ConcCharts == {Chart(1, <<Planet("Saturn", 10), Planet("Mars", 1)>>)}

service == <<main_RULES_CACHE, rulesets, response, last_report, same_again>>

\* load_rules, lines 488-495: RULE_ERRORS = [], out = {}, the listing is read
ReloadBegin(t) ==
    /\ threads[t].pc = "idle"
    /\ \E batch \in ConcBatches :
           threads' = [threads EXCEPT ![t] = [Idle EXCEPT !.pc = "load", !.batch = batch, !.i = 1]]
    /\ RULE_ERRORS' = ResetErrors(RULE_ERRORS)
    /\ UNCHANGED <<RULES_CACHE, service>>

\* one iteration of the loop of load_rules: the diagnostics go to the list that
\* RULE_ERRORS names now, an admitted object to this call's own out
ReloadFile(t) ==
    /\ threads[t].pc = "load"
    /\ threads[t].i <= Len(threads[t].batch)
    /\ LET th == threads[t]
           r == ValidateDef(th.batch[th.i], th.i, th.out)
       IN  /\ RULE_ERRORS' = RULE_ERRORS \o r.errs
           /\ threads' = [threads EXCEPT ![t] =
                  IF r.verdict = "raise"
                  THEN [Idle EXCEPT !.result = Report(TRUE, <<>>, <<>>)]
                  ELSE [th EXCEPT !.i = @ + 1,
                                  !.out = IF r.verdict = "admit" THEN Append(@, r.obj) ELSE @]]
    /\ UNCHANGED <<RULES_CACHE, service>>

\* reload_rules, line 618: RULES_CACHE = load_rules()
ReloadSwap(t) ==
    /\ threads[t].pc = "load"
    /\ threads[t].i > Len(threads[t].batch)
    /\ RULES_CACHE' = threads[t].out
    /\ threads' = [threads EXCEPT ![t].pc = "count"]
    /\ UNCHANGED <<RULE_ERRORS, service>>

\* line 620: len(RULES_CACHE)
ReloadCount(t) ==
    /\ threads[t].pc = "count"
    /\ threads' = [threads EXCEPT ![t].count = Len(RULES_CACHE), ![t].pc = "ids"]
    /\ UNCHANGED <<RULES_CACHE, RULE_ERRORS, service>>

\* line 621: list(RULES_CACHE.keys())
ReloadIds(t) ==
    /\ threads[t].pc = "ids"
    /\ threads' = [threads EXCEPT ![t].ids = CacheIds(RULES_CACHE), ![t].pc = "errors"]
    /\ UNCHANGED <<RULES_CACHE, RULE_ERRORS, service>>

\* line 622: RULE_ERRORS, and the return
ReloadReturn(t) ==
    /\ threads[t].pc = "errors"
    /\ threads' = [threads EXCEPT ![t] =
                       [Idle EXCEPT !.result = [op |-> "reload", raised |-> FALSE,
                                                count |-> threads[t].count,
                                                ids |-> threads[t].ids,
                                                errors |-> RULE_ERRORS]]]
    /\ UNCHANGED <<RULES_CACHE, RULE_ERRORS, service>>

\* evaluate_all, line 685: `for rid in RULES_CACHE` takes the iterator of the
\* dict that RULES_CACHE names now
EvalAllBegin(t) ==
    /\ threads[t].pc = "idle"
    /\ \E chart \in ConcCharts :
           threads' = [threads EXCEPT ![t] =
                          [Idle EXCEPT !.pc = "iterate", !.chart = chart,
                                       !.iter = RULES_CACHE, !.pos = 1]]
    /\ UNCHANGED <<RULES_CACHE, RULE_ERRORS, service>>

\* one element of the comprehension: evaluate_rule(chart, RULES_CACHE[rid])
\* looks rid up in the dict that RULES_CACHE names now (KeyError if absent)
EvalAllNext(t) ==
    /\ threads[t].pc = "iterate"
    /\ threads[t].pos <= Len(threads[t].iter)
    /\ LET th == threads[t]
           rid == th.iter[th.pos].id.s
           r == IF CacheHas(RULES_CACHE, rid)
                THEN evaluate_rule(th.chart, CacheGet(RULES_CACHE, rid))
                ELSE EvalFail
       IN  threads' = [threads EXCEPT ![t] =
               IF r.raised
               THEN [Idle EXCEPT !.chart = th.chart, !.iter = th.iter,
                                 !.result = EvalAllResponse([raised |-> TRUE, verdicts |-> <<>>])]
               ELSE [th EXCEPT !.pos = @ + 1, !.verdicts = Append(@, r.verdict)]]
    /\ UNCHANGED <<RULES_CACHE, RULE_ERRORS, service>>

\* the comprehension is exhausted: the list of verdicts is returned
EvalAllReturn(t) ==
    /\ threads[t].pc = "iterate"
    /\ threads[t].pos > Len(threads[t].iter)
    /\ threads' = [threads EXCEPT ![t] =
                       [Idle EXCEPT !.chart = threads[t].chart, !.iter = threads[t].iter,
                                    !.result = EvalAllResponse([raised |-> FALSE,
                                                   verdicts |-> threads[t].verdicts])]]
    /\ UNCHANGED <<RULES_CACHE, RULE_ERRORS, service>>

NextConc ==
    \E t \in Threads :
        \/ ReloadBegin(t) \/ ReloadFile(t) \/ ReloadSwap(t)
        \/ ReloadCount(t) \/ ReloadIds(t) \/ ReloadReturn(t)
        \/ EvalAllBegin(t) \/ EvalAllNext(t) \/ EvalAllReturn(t)

SpecConc == Init /\ [][NextConc]_vars

(* ------------------- the evaluator on its own ------------------------- *)
\* Rules as the loader admits them, one file per listing, evaluated one at a
\* time over charts with longitudes.
Pair(a, b) == [Params("", {}) EXCEPT !.a = a, !.b = b]
Karaka(planet, of) == [Params(planet, {}) EXCEPT !.of = of]

\* two conjunctions with continuous strengths, one of them scored by strength
Scored ==
    [Rule("s1", <<Sig(JStr("a"), JStr("conjunction"), Pair("Saturn", "Mars")),
                  Sig(JStr("b"), JStr("conjunction"), Pair("Saturn", "Sun"))>>) EXCEPT
          !.weights = JObj(<<KV("a", JNum(1)), KV("b", JNum(1))>>),
          !.strength_weights = JObj(<<KV("a", JBool(TRUE))>>),
          !.strong_if = Expr(<<"a", "and", "b">>),
          !.active_if = Expr(<<"a", "or", "b">>)]
NegWeights == [Rule("s2", <<SigA, SigB>>) EXCEPT
                  !.weights = JObj(<<KV("a", JNum(-3)), KV("b", JNum(1))>>)]
InfWeight == [Rule("s3", <<SigA>>) EXCEPT !.weights = JObj(<<KV("a", JStr("inf"))>>)]
ZeroWeight == [Rule("s4", <<SigA>>) EXCEPT !.weights = JObj(<<KV("a", JNum(0))>>)]
ActiveOnly == [Rule("s5", <<SigA>>) EXCEPT !.active_if = Expr(<<"not", "a">>)]
EmptyStrong == [Rule("s6", <<SigA>>) EXCEPT !.strong_if = Expr(<<>>),
                                            !.active_if = Expr(<<"not", "a">>)]
KarakaOf ==
    Rule("s7", <<Sig(JStr("a"), JStr("planet_in_karaka_houses_of"), Karaka("Saturn", "Pluto"))>>)
\* weights and strength_weights keyed in the reverse of the declaration order
Reordered ==
    [Scored EXCEPT !.id = JStr("s8"),
                   !.weights = JObj(<<KV("b", JNum(2)), KV("a", JNum(1))>>),
                   !.strength_weights = JObj(<<KV("b", JBool(TRUE)), KV("a", JBool(FALSE))>>)]
EvalDefs ==
    {Scored, NegWeights, InfWeight, ZeroWeight, ActiveOnly, EmptyStrong, KarakaOf, NoPlanet, V1,
     Dangling, Reordered}

PlanetAt(name, sign_num, longitude) ==
    [name |-> name, sign_num |-> sign_num, longitude |-> longitude]
EvalCharts ==
    Charts \cup
    {Chart(1, <<PlanetAt("Saturn", 4, 100), PlanetAt("Mars", 4, 118), PlanetAt("Sun", 4, 103)>>),
     Chart(1, <<PlanetAt("Saturn", 10, 285), PlanetAt("Mars", 1, 3), PlanetAt("Sun", 7, 200)>>),
     Chart(4, <<PlanetAt("Saturn", 2, 40), PlanetAt("Mars", 2, 58), PlanetAt("Sun", 3, 70)>>)}

AspectPlanets == {"Sun", "Moon", "Saturn"}

\* reload_rules over a directory that holds one file
eval_reload ==
    \E d \in EvalDefs :
        LET r == reload_rules(<<d>>, RULES_CACHE, RULE_ERRORS) IN
        /\ same_again' = (last_report.op = "reload" /\ <<d>> = rulesets)
        /\ rulesets' = <<d>>
        /\ RULES_CACHE' = r.cache
        /\ RULE_ERRORS' = r.errors
        /\ response' = r.response
        /\ last_report' = r.response
        /\ UNCHANGED <<main_RULES_CACHE, threads>>

EvaluateResponse(chart, rule, r) ==
    [op |-> "evaluate", chart |-> chart, rule |-> rule, raised |-> r.raised,
     verdict |-> r.verdict, score |-> r.score]

\* evaluate_rule(chart, rule) on a cached rule: what it returns, its local
\* score, and the rule object as the call leaves it
eval_rule ==
    \E chart \in EvalCharts : \E i \in 1..Len(RULES_CACHE) :
        /\ response' = EvaluateResponse(chart, RULES_CACHE[i], evaluate_rule(chart, RULES_CACHE[i]))
        /\ RULES_CACHE' = [RULES_CACHE EXCEPT ![i] = RuleAfterEval(RULES_CACHE[i])]
        /\ UNCHANGED <<RULE_ERRORS, main_RULES_CACHE, rulesets, last_report, same_again, threads>>

\* evaluate_all(chart): the verdicts, and the cached rule objects as it leaves them
eval_all ==
    \E chart \in EvalCharts :
        /\ response' = [EvalAllResponse(evaluate_all(chart, RULES_CACHE)) EXCEPT !.op = "evaluate_all"]
        /\ RULES_CACHE' = [i \in 1..Len(RULES_CACHE) |-> RuleAfterEval(RULES_CACHE[i])]
        /\ UNCHANGED <<RULE_ERRORS, main_RULES_CACHE, rulesets, last_report, same_again, threads>>

\* does_aspect_sign(planet_name, from_sign, to_sign)
aspect_sign ==
    \E planet_name \in AspectPlanets : \E from_sign \in 1..12 : \E to_sign \in 1..12 :
        /\ response' = [op |-> "does_aspect_sign", planet_name |-> planet_name,
                        from_sign |-> from_sign, to_sign |-> to_sign,
                        result |-> does_aspect_sign(planet_name, from_sign, to_sign)]
        /\ UNCHANGED <<RULES_CACHE, RULE_ERRORS, main_RULES_CACHE, rulesets, last_report,
                       same_again, threads>>

NextEval == eval_reload \/ eval_rule \/ eval_all

SpecEval == Init /\ [][NextEval]_vars

\* aspects_deg between the midpoints of two signs
aspect_deg ==
    \E planet_name \in AspectPlanets : \E from_sign \in 1..12 : \E to_sign \in 1..12 :
        /\ response' = [op |-> "aspects_deg", planet_name |-> planet_name,
                        from_sign |-> from_sign, to_sign |-> to_sign,
                        result |-> aspects_deg(planet_name, (from_sign - 1) * 30 + 15,
                                               (to_sign - 1) * 30 + 15, 30)]
        /\ UNCHANGED <<RULES_CACHE, RULE_ERRORS, main_RULES_CACHE, rulesets, last_report,
                       same_again, threads>>

\* the sign-aspect and degree-aspect tests over every planet of AspectPlanets
\* and pair of signs
NextAspect == aspect_sign \/ aspect_deg

SpecAspect == Init /\ [][NextAspect]_vars

(* ------------------- the predicates on their own ---------------------- *)
PLANETS == <<"Sun", "Moon", "Mercury", "Venus", "Mars", "Jupiter", "Saturn", "Rahu", "Ketu">>

\* the chart compute_chart builds from nine longitudes: sign_num = lon // 30 + 1
FullChart(asc, lon) ==
    Chart(asc, [i \in 1..9 |-> PlanetAt(PLANETS[i], (lon[i] \div 30) + 1, lon[i])])

PredCharts ==
    {FullChart(1, <<10, 100, 40, 345, 285, 95, 190, 130, 310>>),
     FullChart(7, <<200, 20, 170, 185, 275, 100, 195, 5, 185>>),
     Chart(1, <<PlanetAt("Saturn", 10, 285), PlanetAt("Mars", 1, 3), PlanetAt("Sun", 7, 200)>>)}

\* a parameter bag with every key the predicates read
Bag(planet, a, b, group, house) ==
    [Params(planet, {1, 10}) EXCEPT !.a = a, !.b = b, !.of = "Jupiter", !.group = group,
                                    !.house = house]
PredParams ==
    {Params("", {}),
     Bag("Saturn", "Saturn", "Mars", "kendra", 10),
     [Bag("lord(10)", "Moon", "Sun", "trikona", 1) EXCEPT
          !.orb_deg = JNum(5), !.include_conjunction = JBool(FALSE), !.min = JNum(-200)],
     [Bag("Venus", "Jupiter", "Venus", "dusthana", 4) EXCEPT !.orb_deg = JNum(40)],
     Bag("Rahu", "Pluto", "Sun", "upachaya", 7)}

\* PREDICATES[pred](chart, params) for a registered predicate
apply_predicate ==
    \E pred \in PREDICATES : \E chart \in PredCharts : \E params \in PredParams :
        /\ response' = [op |-> "predicate", pred |-> pred, chart |-> chart, params |-> params,
                        res |-> ApplyPredicate(pred, chart, params)]
        /\ UNCHANGED <<RULES_CACHE, RULE_ERRORS, main_RULES_CACHE, rulesets, last_report,
                       same_again, threads>>

MutualPlanets == {"Moon", "Mars", "Saturn"}
MutualLongitudes == {0, 15, 195, 285}
MutualOrbs == {10, 45}

\* both implementations of the mutual-aspect hybrid on the same two planets
mutual ==
    \E a_name \in MutualPlanets : \E b_name \in MutualPlanets \ {a_name} :
    \E a_lon \in MutualLongitudes : \E b_lon \in MutualLongitudes : \E orb \in MutualOrbs :
        /\ response' =
               [op |-> "mutual_aspect_hybrid", a_name |-> a_name, b_name |-> b_name,
                a_sign |-> (a_lon \div 30) + 1, b_sign |-> (b_lon \div 30) + 1, orb |-> orb,
                engine |-> pred_mutual_aspect_hybrid(
                               Chart(1, <<PlanetAt(a_name, (a_lon \div 30) + 1, a_lon),
                                          PlanetAt(b_name, (b_lon \div 30) + 1, b_lon)>>),
                               [Pair(a_name, b_name) EXCEPT !.orb_deg = JNum(orb)]),
                rules |-> mutual_aspect_hybrid(a_name, a_lon, (a_lon \div 30) + 1,
                                               b_name, b_lon, (b_lon \div 30) + 1, orb)]
        /\ UNCHANGED <<RULES_CACHE, RULE_ERRORS, main_RULES_CACHE, rulesets, last_report,
                       same_again, threads>>

NextPred == apply_predicate \/ mutual

SpecPred == Init /\ [][NextPred]_vars

(* ---------------------------- predictor.py ---------------------------- *)
\* Rule ids are sequences of characters here, so that `k in rid` is a test on
\* substrings.  Scores and boosts are in thousandths.

\* str.lower() over the letters the ids of the model use
lower(s) ==
    [i \in 1..Len(s) |->
        CASE s[i] = "C" -> "c" [] s[i] = "D" -> "d" [] s[i] = "L" -> "l" [] OTHER -> s[i]]

\* k in s
Contains(s, k) == \E i \in 0..(Len(s) - Len(k)) : SubSeq(s, i + 1, i + Len(k)) = k

_infer_categories(rule_id) ==
    LET career == \E k \in {<<"c", "a", "r", "e", "e", "r", "_">>,
                            <<"r", "a", "j", "a", "y", "o", "g", "a">>,
                            <<"y", "o", "g", "a", "k", "a", "r", "a", "k", "a">>} :
                      Contains(lower(rule_id), k)
        wealth == \E k \in {<<"d", "h", "a", "n", "a">>,
                            <<"f", "o", "r", "t", "u", "n", "e">>, <<"l", "9">>} :
                      Contains(lower(rule_id), k)
    IN  IF ~career /\ ~wealth THEN {"general"}
        ELSE (IF career THEN {"career"} ELSE {}) \cup (IF wealth THEN {"wealth"} ELSE {})

\* transits.calc_transit_positions: the nine positions, sign_num from the longitude
calc_transit_positions(lon) ==
    [i \in 1..9 |-> PlanetAt(PLANETS[i], (lon[i] \div 30) + 1, lon[i])]

\* _time_boosts.get(name): (longitude, sign_num) of the transit, (0.0, 0) without one
TransitOf(trans, name) == planet_get([planets |-> trans], name).p

\* _aspect_strength_to_sign in thirtieths: max(0.0, 1.0 - diff/30.0) when the
\* planet aspects the sign, 0.0 otherwise
_aspect_strength_to_sign(planet_name, p_lon, p_sign, target_sign) ==
    IF ~does_aspect_sign(planet_name, p_sign, target_sign) THEN 0
    ELSE LET diff == aspects_deg(planet_name, p_lon, (target_sign - 1) * 30 + 15, 30).best IN
         IF diff >= 30 THEN 0 ELSE 30 - diff

\* max(1.0 if sign == house sign else 0.0, _aspect_strength_to_sign(...)), in thirtieths
ReachOf(trans, name, house_sign) ==
    IF TransitOf(trans, name).sign_num = house_sign THEN 30
    ELSE _aspect_strength_to_sign(name, TransitOf(trans, name).longitude,
                                  TransitOf(trans, name).sign_num, house_sign)

\* transits.aspects_to_natal, lines 88-107: one transit against one natal planet
HitOf(t, n, orb_deg) ==
    [transit |-> t.name, natal |-> n.name,
     sign_ok |-> MutualOf(t, n, orb_deg, orb_deg).bool,
     strength |-> MutualOf(t, n, orb_deg, orb_deg).strength]

\* transits.aspects_to_natal: the hits, one per transit and natal planet in
\* mutual sign aspect, with strength 1 - diff / max(orb_deg, 1e-6)
aspects_to_natal(natal, trans, orb_deg) ==
    {h \in {HitOf(trans[p[1]], natal.planets[p[2]], orb_deg) :
                p \in (1..Len(trans)) \X (1..Len(natal.planets))} : h.sign_ok}

\* _time_boosts._max_strength
_max_strength(hits, transit_name, natal_targets) ==
    LET cand == {h.strength : h \in {x \in hits : x.transit = transit_name
                                                   /\ x.natal \in natal_targets}}
    IN  IF cand = {} THEN 0 ELSE MaxOf(cand)

\* round(max(-0.25, min(0.25, boost)), 3) for boost = num / unit, in thousandths
BoostOf(num, unit) ==
    LET lim == unit \div 4
        c == IF num > lim THEN lim ELSE IF num < -lim THEN -lim ELSE num
    IN  (2000 * c + unit) \div (2 * unit)

\* lines 107-109 and 125-128: the boosts from the reaches (thirtieths) and the
\* hard hits (thousandths); a boost is num / 300000
Boosts(j_to_10, j_to_9, j_to_11, v_to_10, saturn_hard, mars_hard, nodes_hard) ==
    [career |-> BoostOf(1000 * j_to_10 + 500 * v_to_10 - 30 * saturn_hard - 24 * mars_hard, 300000),
     wealth |-> BoostOf(600 * j_to_9 + 600 * j_to_11 - 18 * nodes_hard, 300000),
     general |-> BoostOf(400 * j_to_10 + 300 * j_to_9 + 300 * j_to_11 - 9 * saturn_hard, 300000),
     global |-> BoostOf(1000 * j_to_10 + 500 * v_to_10 - 30 * saturn_hard - 24 * mars_hard
                        + 600 * j_to_9 + 600 * j_to_11 - 18 * nodes_hard, 600000)]

\* _time_boosts from line 92 on, hits being aspects_to_natal(...)["hits"]
BoostsFromHits(natal, trans, hits) ==
    Boosts(ReachOf(trans, "Jupiter", sign_of_house_from_asc(natal, 10)),
           ReachOf(trans, "Jupiter", sign_of_house_from_asc(natal, 9)),
           ReachOf(trans, "Jupiter", sign_of_house_from_asc(natal, 11)),
           ReachOf(trans, "Venus", sign_of_house_from_asc(natal, 10)),
           _max_strength(hits, "Saturn", {"Moon", SIGN_LORD[asc_sign_num(natal)]}),
           _max_strength(hits, "Mars", {"Moon", SIGN_LORD[asc_sign_num(natal)],
                                        SIGN_LORD[sign_of_house_from_asc(natal, 10)]}),
           MaxOf({_max_strength(hits, "Rahu", {"Sun", "Moon"}),
                  _max_strength(hits, "Ketu", {"Sun", "Moon"})}))

\* _time_boosts(natal, ...) for the transit positions trans
_time_boosts(natal, trans, orb_deg) ==
    BoostsFromHits(natal, trans, aspects_to_natal(natal, trans, orb_deg))

\* line 154 without the clamp to [0, 1]
UnclampedScore(base, delta) == IF base.nan THEN 1000 ELSE base.n + delta

\* line 154: max(0.0, min(1.0, score + delta)); min(1.0, nan) is 1.0
new_score(base, delta) ==
    IF base.nan THEN 1000
    ELSE IF base.n + delta > 1000 THEN 1000 ELSE IF base.n + delta < 0 THEN 0 ELSE base.n + delta

\* lines 149-160: the adjusted entry of one verdict
Adjusted(r, b) ==
    [id |-> r.id, base_score |-> r.score,
     adjusted_score |-> new_score(r.score,
                            b.general
                            + (IF "career" \in _infer_categories(r.id) THEN b.career ELSE 0)
                            + (IF "wealth" \in _infer_categories(r.id) THEN b.wealth ELSE 0)),
     status |-> r.status, categories |-> _infer_categories(r.id)]

\* sorted(adjusted, key=adjusted_score, reverse=True): stable, equal keys keep their order
RECURSIVE SortedDesc(_)
SortedDesc(xs) ==
    IF xs = <<>> THEN <<>>
    ELSE LET best == MaxOf({xs[i].adjusted_score : i \in 1..Len(xs)})
             k == MinOf({i \in 1..Len(xs) : xs[i].adjusted_score = best})
         IN  <<xs[k]>> \o SortedDesc(SubSeq(xs, 1, k - 1) \o SubSeq(xs, k + 1, Len(xs)))

\* summarize_timeaware: the boosts, the adjusted verdicts in the order of
\* evals, and the top_n of them by adjusted score; tb is the value of
\* _time_boosts(natal, ...)["boosts"] of line 146
summarize_timeaware(evals, tb, top_n) ==
    [time_boosts |-> tb,
     ranked |-> [i \in 1..Len(evals) |-> Adjusted(evals[i], tb)],
     top_rules |-> SubSeq(SortedDesc([i \in 1..Len(evals) |-> Adjusted(evals[i], tb)]), 1,
                          IF top_n < Len(evals) THEN top_n ELSE Len(evals))]

PredictIds ==
    {<<"c", "a", "r", "e", "e", "r", "_", "x">>, <<"C", "a", "r", "e", "e", "r">>,
     <<"D", "h", "a", "n", "a", "_", "L", "9">>, <<"r", "a", "j", "a", "y", "o", "g", "a", "_",
     "f", "o", "r", "t", "u", "n", "e">>, <<"x">>}

\* verdicts as evaluate_all returns them: id, rounded score (or NaN), status
PredictVerdicts ==
    {[id |-> <<"c", "a", "r", "e", "e", "r", "_", "x">>, score |-> [nan |-> FALSE, n |-> 950],
      status |-> "strong"],
     [id |-> <<"D", "h", "a", "n", "a", "_", "L", "9">>, score |-> [nan |-> FALSE, n |-> 0],
      status |-> "inactive"],
     [id |-> <<"x">>, score |-> [nan |-> FALSE, n |-> 500], status |-> "active"],
     [id |-> <<"r", "a", "j", "a", "y", "o", "g", "a", "_", "f", "o", "r", "t", "u", "n", "e">>,
      score |-> [nan |-> FALSE, n |-> 20], status |-> "inactive"],
     [id |-> <<"C", "a", "r", "e", "e", "r">>, score |-> [nan |-> TRUE, n |-> 0],
      status |-> "active"]}
PredictEvals == SeqsUpTo(PredictVerdicts, 2)

\* natal charts with ascendant Aries (lord Mars): houses 9, 10, 11 are signs 9, 10, 11
Natals ==
    {FullChart(1, <<10, 100, 40, 345, 120, 95, 190, 130, 310>>),
     FullChart(8, <<200, 20, 170, 185, 275, 100, 195, 5, 185>>)}

\* transit longitudes: Jupiter in or aspecting the 10th, Mars four signs before
\* natal Mars with and without Jupiter's support
TransitLongitudes ==
    {<<10, 100, 40, 285, 29, 280, 190, 130, 310>>,
     <<10, 100, 40, 200, 29, 190, 190, 130, 310>>,
     <<200, 20, 170, 20, 155, 120, 195, 5, 185>>,
     <<123, 3, 100, 200, 15, 250, 20, 77, 257>>}

infer_categories ==
    \E rule_id \in PredictIds :
        /\ response' = [op |-> "infer_categories", rule_id |-> rule_id,
                        cats |-> _infer_categories(rule_id)]
        /\ UNCHANGED <<RULES_CACHE, RULE_ERRORS, main_RULES_CACHE, rulesets, last_report,
                       same_again, threads>>

\* summarize_timeaware over the verdicts of evaluate_all(natal)
predict_timeaware ==
    \E natal \in Natals : \E lon \in TransitLongitudes : \E orb_deg \in {0, 6} :
    \E tb \in {_time_boosts(natal, calc_transit_positions(lon), orb_deg)} :
    \E evals \in PredictEvals :
        /\ response' = [op |-> "summarize_timeaware", evals |-> evals,
                        report |-> summarize_timeaware(evals, tb, 5)]
        /\ UNCHANGED <<RULES_CACHE, RULE_ERRORS, main_RULES_CACHE, rulesets, last_report,
                       same_again, threads>>

NextPredict == infer_categories \/ predict_timeaware

SpecPredict == Init /\ [][NextPredict]_vars

(* ------------------------------ claims -------------------------------- *)
\* C1: listLoaded returns the count and the ids that the most recent reload
\* reported, and count 0 with no ids before any reload.
C1_ListMatchesReload ==
    response.op = "list" =>
        IF last_report.op = "none" THEN response.count = 0 /\ response.ids = <<>>
        ELSE ~last_report.raised =>
                 response.count = last_report.count /\ response.ids = last_report.ids

\* C2: evaluateOne answers not-found exactly when the rule id is not among the
\* ids admitted by the most recent reload, and never raises for not-found.
C2_EvalOneFindsAdmitted ==
    (response.op = "eval_one" /\ last_report.op = "reload" /\ ~last_report.raised) =>
        /\ response.not_loaded <=>
               response.rule_id \notin {last_report.ids[i] : i \in 1..Len(last_report.ids)}
        /\ response.not_loaded => ~response.raised

ValidAlone(d) == ValidateDef(d, 1, <<>>).verdict = "admit"
IdsBefore(batch, i) ==
    {batch[j].id.s : j \in {k \in 1..(i - 1) : batch[k].kind = "object" /\ batch[k].id.t = "str"}}

\* C3: reload never raises because of one bad definition: it returns a report
\* and still admits every valid definition of the batch (the first of each id).
C3_ReloadNeverRaises ==
    last_report.op = "reload" =>
        /\ ~last_report.raised
        /\ \A i \in 1..Len(rulesets) :
               (ValidAlone(rulesets[i]) /\ rulesets[i].id.s \notin IdsBefore(rulesets, i))
                   => CacheHas(RULES_CACHE, rulesets[i].id.s)

Toks(e) == {e.toks[i] : i \in 1..Len(e.toks)}
\* the identifiers of a status expression: its lexemes that are Python
\* identifiers and none of the keywords and / or / not / True / False
Identifiers(e) == {tok \in Toks(e) : isidentifier(tok) /\ tok \notin _ALLOWED_STATUS_TOKENS}
SignalIds(rule) == {rule.signals.items[i].id.s : i \in 1..Len(rule.signals.items)}
ObjKeys(v) == IF v.t = "obj" THEN Keys(v) ELSE {}

RuleInvariant(rule) ==
    /\ \A i, j \in 1..Len(rule.signals.items) :
           rule.signals.items[i].id.s = rule.signals.items[j].id.s => i = j
    /\ \A i \in 1..Len(rule.signals.items) : rule.signals.items[i].predicate.s \in PREDICATES
    /\ ObjKeys(rule.weights) \subseteq SignalIds(rule)
    /\ ObjKeys(rule.strength_weights) \subseteq SignalIds(rule)
    /\ Identifiers(rule.strong_if) \subseteq SignalIds(rule)
    /\ Identifiers(rule.active_if) \subseteq SignalIds(rule)

\* C4: every cached rule satisfies the rule invariant (distinct signal ids,
\* registered predicates, weights / strength_weights keys and status-expression
\* identifiers all declared signal ids), and the cached rule ids are unique.
C4_CacheInvariant ==
    /\ \A i \in 1..Len(RULES_CACHE) : RuleInvariant(RULES_CACHE[i])
    /\ \A i, j \in 1..Len(RULES_CACHE) : RULES_CACHE[i].id.s = RULES_CACHE[j].id.s => i = j

HasId(d) == d.kind = "object" /\ d.id.t = "str"
IsDuplicateDiag(e, i) == e.file = i /\ e.error.msg = "Duplicate rule id (already loaded)"

\* C5: among the definitions of a batch that carry one rule id, the first in
\* processing order is the only one that can be admitted, and every later one
\* is rejected with a duplicate-id diagnostic.
C5_FirstOccurrenceWins ==
    (last_report.op = "reload" /\ ~last_report.raised) =>
        \A j \in 1..Len(rulesets) :
            (HasId(rulesets[j]) /\ rulesets[j].id.s \in IdsBefore(rulesets, j)) =>
                \E k \in 1..Len(RULE_ERRORS) : IsDuplicateDiag(RULE_ERRORS[k], j)

\* the batch is one valid definition and one malformed definition
OneValidOneMalformed(batch) ==
    /\ Len(batch) = 2
    /\ \E i \in 1..2 : ValidAlone(batch[i]) /\ ~ValidAlone(batch[3 - i])
                       /\ batch[3 - i].kind # "other_file"

\* C6: for a batch of one valid and one malformed definition, reload admits
\* exactly the valid one and lists exactly one error, for the malformed one.
C6_OneErrorForMalformed ==
    (last_report.op = "reload" /\ OneValidOneMalformed(rulesets)) =>
        \E i \in 1..2 :
            /\ ValidAlone(rulesets[i])
            /\ ~last_report.raised
            /\ last_report.ids = <<rulesets[i].id.s>>
            /\ Len(last_report.errors) = 1
            /\ last_report.errors[1].file = 3 - i

\* C7: a reload that reads the listing the previous reload read leaves the
\* cache, the error list and the report as that previous reload left them.
C7_ReloadIdempotent ==
    [][(response'.op = "reload" /\ last_report.op = "reload" /\ rulesets' = rulesets)
          => (RULES_CACHE' = RULES_CACHE /\ RULE_ERRORS' = RULE_ERRORS
              /\ last_report' = last_report)]_vars

\* C7: the same listing was reloaded twice, with rules admitted and diagnostics
C7_Witness ==
    /\ same_again
    /\ response.op = "reload" /\ ~response.raised
    /\ response.count > 0 /\ Len(response.errors) > 0
    /\ RULES_CACHE # <<>> /\ RULE_ERRORS # <<>>

\* C9: after a reload the cache holds exactly the rules admitted from the
\* latest batch and the error list only the diagnostics of that batch.
C9_WholesaleReplaced ==
    last_report.op = "reload" =>
        /\ RULES_CACHE = load_rules(rulesets, <<>>).out
        /\ RULE_ERRORS = load_rules(rulesets, <<>>).errors

Contexts(rule) == [SignalIds(rule) -> BOOLEAN]
AnyTrue(ctx) == \E sid \in DOMAIN ctx : ctx[sid]
IsBoolean(r) == ~r.error /\ r.v \in {"T", "F"}

\* C10: for every cached rule and every assignment of booleans to its signals,
\* the status selection of evaluate_rule completes without an error, and
\* strong_if and active_if evaluate to booleans.
C10_StatusExprSafe ==
    \A i \in 1..Len(RULES_CACHE) : \A ctx \in Contexts(RULES_CACHE[i]) :
        /\ SelectStatus(RULES_CACHE[i], ctx, AnyTrue(ctx)) # "raise"
        /\ HasExpr(RULES_CACHE[i].strong_if)
               => IsBoolean(_safe_eval(RULES_CACHE[i].strong_if.toks, ctx))
        /\ HasExpr(RULES_CACHE[i].active_if)
               => IsBoolean(_safe_eval(RULES_CACHE[i].active_if.toks, ctx))

\* C8: an evaluate_all that ran while reloads ran returns what evaluating the
\* one cache it iterates returns: no failure of its own, and every rule id
\* evaluated with the definition that cache holds for it.
C8_ReadersSeeOneCache ==
    \A t \in Threads :
        (threads[t].pc = "idle" /\ threads[t].result.op = "eval_all") =>
            threads[t].result = EvalAllResponse(evaluate_all(threads[t].chart, threads[t].iter))

\* C11: a status expression of an admitted definition holds nothing but
\* parentheses, the keywords and / or / not / True / False, and identifiers
\* that are declared signal ids of the rule; any other token rejects it.
C11_OnlyGrammarTokensAdmitted ==
    \A i \in 1..Len(RULES_CACHE) : \A key \in {"strong_if", "active_if"} :
        RULES_CACHE[i][key].t = "str" =>
            Toks(RULES_CACHE[i][key]) \subseteq (_ALLOWED_STATUS_TOKENS \cup SignalIds(RULES_CACHE[i]))

\* C12: an admitted definition has no strength_weights field, or an object
\* whose keys are declared signal ids and whose values are booleans; any other
\* JSON type in the field rejects the definition.
C12_StrengthWeightsChecked ==
    \A i \in 1..Len(RULES_CACHE) :
        LET sw == RULES_CACHE[i].strength_weights IN
        /\ sw.t \in {"absent", "obj"}
        /\ sw.t = "obj" =>
               /\ Keys(sw) \subseteq SignalIds(RULES_CACHE[i])
               /\ \A k \in 1..Len(sw.kv) : sw.kv[k].v.t = "bool"

\* the verdicts of the rules of the cache whose evaluation does not fail
RECURSIVE IsolatedVerdicts(_, _, _)
IsolatedVerdicts(chart, cache, i) ==
    IF i > Len(cache) THEN <<>>
    ELSE LET r == evaluate_rule(chart, cache[i]) IN
         (IF r.raised THEN <<>> ELSE <<r.verdict>>) \o IsolatedVerdicts(chart, cache, i + 1)

\* C17: evaluateAll never aborts as a whole: it returns the verdict of every
\* cached rule whose own evaluation does not fail.
C17_EvalAllIsolatesFailures ==
    response.op = "eval_all" =>
        /\ ~response.raised
        /\ \E chart \in Charts : response.verdicts = IsolatedVerdicts(chart, RULES_CACHE, 1)

RECURSIVE SumOver(_, _, _)
\* the sum of f[k] * g[k] over the keys of S
SumOver(S, f, g) ==
    IF S = {} THEN 0
    ELSE LET k == CHOOSE x \in S : TRUE IN f[k] * g[k] + SumOver(S \ {k}, f, g)

\* weight[s] of the evaluated rule, for the signal ids s in weights
WeightOf(rule) == [k \in ObjKeys(rule.weights) |-> Get(rule.weights, k, JNum(0)).n]
FiniteWeights(rule) ==
    \A k \in ObjKeys(rule.weights) : Get(rule.weights, k, JNum(0)).s = ""
UsesStrength(rule, k) ==
    rule.strength_weights.t = "obj" /\ Get(rule.strength_weights, k, JBool(FALSE)) = JBool(TRUE)
\* value[s] in thousandths, from the per-signal results of the verdict
ValueOf(rule, verdict) ==
    [k \in ObjKeys(rule.weights) |->
        LET res == SignalOf(verdict.signals, k) IN
        IF UsesStrength(rule, k) THEN res.strength ELSE IF res.bool THEN 1000 ELSE 0]
Ones(rule) == [k \in ObjKeys(rule.weights) |-> 1]

\* C13: the score before rounding is (sum of weight[s] * value[s]) / (sum of
\* weight[s]) over the signal ids in weights, and 0 when the weight sum is 0.
C13_ScoreIsWeightedMean ==
    (response.op = "evaluate" /\ ~response.raised) =>
        LET rule == response.rule
            wsum == SumOver(ObjKeys(rule.weights), WeightOf(rule), Ones(rule))
            raw == SumOver(ObjKeys(rule.weights), WeightOf(rule), ValueOf(rule, response.verdict))
        IN  /\ FiniteWeights(rule)
            /\ ~response.score.nan
            /\ IF wsum = 0 THEN response.score.num = 0
               ELSE response.score.num * (1000 * wsum) = response.score.den * raw

\* a weight that is >= 0: a finite number >= 0 or +infinity
NonNegative(w) == w.s = "inf" \/ w.n >= 0

\* C14: when all the weights of the rule are >= 0, the returned score is a
\* number between 0 and 1.
C14_ScoreInUnitInterval ==
    (response.op = "evaluate" /\ ~response.raised
         /\ \A k \in ObjKeys(response.rule.weights) :
                NonNegative(Get(response.rule.weights, k, JNum(0)))) =>
        /\ ~response.verdict.score.nan
        /\ response.verdict.score.n \in 0..1000

\* the expression is present and evaluates to true over the signal booleans
EvaluatesTrue(e, ctx) == e.t = "str" /\ IsTrue(_safe_eval(e.toks, ctx).v)

\* the status that the spec derives for a rule with strong_if
StatusWithStrongIf(rule, ctx) ==
    IF EvaluatesTrue(rule.strong_if, ctx) THEN "strong"
    ELSE IF EvaluatesTrue(rule.active_if, ctx) \/ AnyTrue(ctx) THEN "active"
    ELSE "inactive"

\* C15: for a rule with strong_if, whenever the signals have been computed the
\* evaluation returns the status "strong" if strong_if is true, else "active"
\* if active_if is present and true or any signal is true, else "inactive".
C15_StatusWithStrongIf ==
    (response.op = "evaluate" /\ response.rule.strong_if.t = "str") =>
        LET sr == ComputeSignals(response.chart, response.rule.signals.items,
                                 orb_def(response.rule), 1, <<>>)
        IN  ~sr.raised =>
                /\ ~response.raised
                /\ response.verdict.status = StatusWithStrongIf(response.rule, Ctx(sr.res))

\* C16: a rule without strong_if is never "strong": its status is "active"
\* exactly when some signal boolean is true and "inactive" otherwise, whatever
\* active_if says.
C16_NoStrongWithoutStrongIf ==
    (response.op = "evaluate" /\ ~response.raised /\ response.rule.strong_if.t = "absent") =>
        response.verdict.status =
            IF \E i \in 1..Len(response.verdict.signals) : response.verdict.signals[i].bool
            THEN "active" ELSE "inactive"

\* C16: a rule without strong_if whose active_if is true while every signal is
\* false was evaluated
C16_Witness ==
    /\ response.op = "evaluate" /\ ~response.raised
    /\ response.rule.strong_if.t = "absent"
    /\ EvaluatesTrue(response.rule.active_if, Ctx(response.verdict.signals))
    /\ \A i \in 1..Len(response.verdict.signals) : ~response.verdict.signals[i].bool
    /\ response.verdict.status = "inactive"

\* C18: a step that evaluates (evaluate_rule or evaluate_all) leaves the rule
\* cache, with every rule definition and signal params in it, and the error
\* list as they were.
C18_EvaluationHasNoSideEffects ==
    [][response'.op \in {"evaluate", "evaluate_all"}
          => (RULES_CACHE' = RULES_CACHE /\ RULE_ERRORS' = RULE_ERRORS)]_vars

\* C18: a cached rule whose signal params name no orb was evaluated to a
\* verdict, so the default orb was merged into the bag the predicate saw
C18_Witness ==
    /\ response.op = "evaluate" /\ ~response.raised
    /\ \E i \in 1..Len(response.rule.signals.items) :
           /\ response.rule.signals.items[i].params.orb_deg.t = "absent"
           /\ params_of(response.rule.signals.items[i], orb_def(response.rule)).orb_deg.t = "num"
    /\ CacheHas(RULES_CACHE, response.rule.id.s)
    /\ CacheGet(RULES_CACHE, response.rule.id.s) = response.rule

\* the planet-valued parameters of a signal
PlanetParams(sig) == {sig.params.planet, sig.params.a, sig.params.b, sig.params.of} \ {""}
\* the token resolves to a planet name that the chart does not hold
AbsentFrom(chart, token) ==
    resolve_planet(chart, token).ok /\ ~planet_get(chart, resolve_planet(chart, token).name).found

\* C19: an evaluation of a rule with a signal that names, in any planet-valued
\* parameter, a planet absent from the chart fails; it yields no verdict.
C19_AbsentPlanetRaises ==
    (response.op = "evaluate"
         /\ \E i \in 1..Len(response.rule.signals.items) :
                \E token \in PlanetParams(response.rule.signals.items[i]) :
                    AbsentFrom(response.chart, token)) =>
        response.raised

\* the sign opposite s: six signs ahead
Opposite(s) == ((s + 5) % 12) + 1

\* C20: a planet without a special aspect set aspects to_sign from from_sign
\* exactly when to_sign is the sign opposite from_sign.
C20_DefaultAspectIsOpposition ==
    (response.op = "does_aspect_sign" /\ response.planet_name \notin DOMAIN SPECIAL_SIGN_ASPECTS) =>
        (response.result <=> response.to_sign = Opposite(response.from_sign))

\* C21: for pred_mutual_aspect_hybrid with an orb > 0, where diff is the
\* smaller of the two directions' degree differences, the strength is 1.0
\* exactly when diff = 0 and 0.0 whenever diff >= orb.
C21_MutualStrengthBoundary ==
    (response.op = "mutual_aspect_hybrid" /\ response.orb > 0 /\ ~response.engine.raised) =>
        /\ (response.engine.strength = 1000) <=> (response.engine.angle_diff = 0)
        /\ (response.engine.angle_diff >= response.orb) => (response.engine.strength = 0)

\* the predicates whose boolean is an occupancy or a placement
PlacementPredicates ==
    {"planet_in_karaka_houses_of", "planet_in_karaka_places_of", "planet_in_signs",
     "planet_in_house_group_from_asc", "planet_in_house_from_asc", "planet_in_own_sign",
     "planet_in_exaltation", "planet_debilitated", "benefics_occupy_house_from_asc",
     "malefics_occupy_house_from_asc"}

\* C22: every registered predicate that returns, returns a strength in [0,1];
\* an occupancy/placement predicate returns 1.0 exactly when its boolean is
\* true and 0.0 otherwise.
C22_StrengthInUnitInterval ==
    (response.op = "predicate" /\ ~response.res.raised) =>
        /\ response.res.strength \in 0..1000
        /\ (response.pred \in PlacementPredicates) =>
               (response.res.strength = IF response.res.bool THEN 1000 ELSE 0)

\* a graded predicate has returned a strength strictly between 0 and 1
C22_Witness ==
    /\ response.op = "predicate" /\ ~response.res.raised
    /\ response.pred = "sav_lite_threshold"
    /\ response.res.strength \in 1..999

\* C26: whenever does_aspect_sign(P, s, t) holds, P at the midpoint of sign s
\* is at an exact degree aspect to the midpoint of sign t: aspects_deg returns
\* the best difference 0.
C26_DegreeAnglesMirrorSignAspects ==
    (response.op = "aspects_deg" /\ ~response.result.raised
     /\ does_aspect_sign(response.planet_name, response.from_sign, response.to_sign)) =>
        response.result.best = 0

\* C29: two distinct planets placed in opposite signs (six signs apart) are in
\* mutual sign aspect: pred_mutual_aspect_hybrid returns bool = true, in
\* either argument order.
C29_OppositeSignsMutualAspect ==
    (response.op = "mutual_aspect_hybrid" /\ ~response.engine.raised
     /\ response.b_sign = Opposite(response.a_sign)) =>
        response.engine.bool

\* C30: rules.mutual_aspect_hybrid and rules_engine.pred_mutual_aspect_hybrid
\* return the same sign-mutual boolean, deg_ok flag, angle difference and
\* strength, for every pair of planets, longitudes and orb > 0.
C30_MutualImplementationsAgree ==
    (response.op = "mutual_aspect_hybrid" /\ response.orb > 0) =>
        /\ response.engine.raised = response.rules.raised
        /\ ~response.engine.raised =>
               /\ response.engine.bool = response.rules.bool
               /\ response.engine.deg_ok = response.rules.deg_ok
               /\ response.engine.angle_diff = response.rules.angle_diff
               /\ response.engine.strength = response.rules.strength

\* some keyword of the set occurs in the id, case-insensitively
HasKeyword(rule_id, keys) == \E k \in keys : Contains(lower(rule_id), k)
CareerKeywords ==
    {<<"c", "a", "r", "e", "e", "r">>, <<"r", "a", "j", "a", "y", "o", "g", "a">>,
     <<"y", "o", "g", "a", "k", "a", "r", "a", "k", "a">>}
WealthKeywords ==
    {<<"d", "h", "a", "n", "a">>, <<"f", "o", "r", "t", "u", "n", "e">>, <<"l", "9">>}

\* C23: an id containing "career", "rajayoga" or "yogakaraka" (in any case)
\* is in the career category, one containing "dhana", "fortune" or "l9" in the
\* wealth category, and an id is in the general category exactly when it is
\* in neither.
C23_CategoriesByKeyword ==
    (response.op = "infer_categories") =>
        /\ HasKeyword(response.rule_id, CareerKeywords) => "career" \in response.cats
        /\ HasKeyword(response.rule_id, WealthKeywords) => "wealth" \in response.cats
        /\ ("general" \in response.cats)
               <=> ("career" \notin response.cats /\ "wealth" \notin response.cats)

Clamp01(x) == IF x > 1000 THEN 1000 ELSE IF x < 0 THEN 0 ELSE x
BoostFor(b, cats) ==
    b.general + (IF "career" \in cats THEN b.career ELSE 0)
    + (IF "wealth" \in cats THEN b.wealth ELSE 0)

\* C24: in summarize_timeaware every adjusted score is clamp(base_score +
\* general boost + the boosts of the rule's categories among career/wealth,
\* 0, 1) and so lies in [0,1]; every boost lies in [-0.25, 0.25]; status and
\* base score are passed through unchanged.
C24_AdjustedScoreClamped ==
    (response.op = "summarize_timeaware") =>
        /\ \A k \in {"career", "wealth", "general", "global"} :
               response.report.time_boosts[k] \in -250..250
        /\ Len(response.report.ranked) = Len(response.evals)
        /\ \A i \in 1..Len(response.evals) :
               LET r == response.evals[i]
                   a == response.report.ranked[i]
               IN  /\ a.adjusted_score \in 0..1000
                   /\ a.status = r.status
                   /\ a.base_score = r.score
                   /\ ~r.score.nan =>
                          a.adjusted_score =
                              Clamp01(r.score.n + BoostFor(response.report.time_boosts, a.categories))

\* a rule whose base score plus boosts exceeds 1.0 was clamped at 1.0, its
\* status passed through
C24_Witness ==
    /\ response.op = "summarize_timeaware"
    /\ \E i \in 1..Len(response.evals) :
           /\ ~response.evals[i].score.nan
           /\ response.evals[i].score.n
                  + BoostFor(response.report.time_boosts, response.report.ranked[i].categories) > 1000
           /\ response.report.ranked[i].adjusted_score = 1000
           /\ response.report.ranked[i].status = "strong"

\* C25: the explain trace of a verdict has one line per declared signal, in
\* declaration order, each naming the signal's id, its predicate and YES or NO
\* by the boolean the predicate gave on the chart; neither the order of the
\* keys of weights nor that of strength_weights changes it.
DeclaredLine(rule, chart, i) ==
    LET sig == rule.signals.items[i]
        res == ApplyPredicate(sig.predicate.s, chart, params_of(sig, orb_def(rule)))
    IN  [id |-> sig.id.s, predicate |-> sig.predicate.s, yes |-> res.bool]
LineShown(line) == [id |-> line.id, predicate |-> line.predicate, yes |-> line.yes]
C25_ExplainInDeclarationOrder ==
    (response.op = "evaluate" /\ ~response.raised) =>
        /\ Len(response.verdict.explain) = Len(response.rule.signals.items)
        /\ \A i \in 1..Len(response.verdict.explain) :
               LineShown(response.verdict.explain[i])
                   = DeclaredLine(response.rule, response.chart, i)
C25_Witness ==
    /\ response.op = "evaluate" /\ ~response.raised
    /\ response.rule = Reordered
    /\ response.rule.weights.kv[1].k = response.rule.signals.items[2].id.s
    /\ Len(response.verdict.explain) = 2
    /\ response.verdict.explain[1].id = "a" /\ response.verdict.explain[2].id = "b"
    /\ response.verdict.explain[1].yes
    /\ response.verdict.explain[1].strength # response.verdict.explain[2].strength

\* C27: under concurrent reloads, the report a reload returns is consistent
\* and its own: count is the number of ids returned, the ids are those
\* admitted from the batch this call validated, and errors holds exactly the
\* diagnostics of that batch.
OwnReport(batch) == reload_rules(batch, <<>>, <<>>).response
ReloadReturns(t) == threads[t].pc = "errors" /\ threads'[t].pc = "idle"
C27_ConcurrentReportIsOwn ==
    [][\A t \in Threads :
          ReloadReturns(t) =>
              /\ threads'[t].result.count = Len(threads'[t].result.ids)
              /\ threads'[t].result.ids = OwnReport(threads[t].batch).ids
              /\ threads'[t].result.errors = OwnReport(threads[t].batch).errors]_vars

\* C28: after a reload every definition of the batch is accounted for exactly
\* one way: the definitions that no diagnostic names are the ones the cache
\* holds, each under its id, and every other definition is named by at least
\* one diagnostic and is not in the cache; count is the number of admitted
\* definitions.
Diagnosed(errors, fname) == \E k \in 1..Len(errors) : errors[k].file = fname
RECURSIVE Undiagnosed(_, _, _)
Undiagnosed(batch, errors, i) ==
    IF i > Len(batch) THEN <<>>
    ELSE (IF batch[i].kind # "other_file" /\ ~Diagnosed(errors, i) THEN <<batch[i].id>> ELSE <<>>)
         \o Undiagnosed(batch, errors, i + 1)
C28_EveryDefinitionAccounted ==
    response.op = "reload" =>
        LET admitted == Undiagnosed(rulesets, RULE_ERRORS, 1) IN
        /\ [k \in 1..Len(RULES_CACHE) |-> RULES_CACHE[k].id] = admitted
        /\ ~response.raised => response.count = Len(admitted)

====
